---- MODULE Spec2Model ----
(***************************************************************************)
(* The coding agent: the action dispatcher                                 *)
(* (app/core/actions/parsing/handler.py), the command executor             *)
(* (app/core/execution/command_executor.py), the completion client         *)
(* (app/llm/client.py), the action parser                                  *)
(* (app/core/actions/parsing/parser.py), the memory manager                *)
(* (app/core/agents/memory_manager.py), the context and task stores        *)
(* (app/core/storage) and the orchestrator turn loop                       *)
(* (app/core/agents/orchestrator.py).                                      *)
(*                                                                         *)
(* The specifications share the variables:                                 *)
(*   SpecExec     a direct call of ActionHandler.execute on a batch;       *)
(*   Spec         OrchestratorAgent.run with a small turn budget and every *)
(*                failure the environment can produce;                     *)
(*   SpecLong     OrchestratorAgent.run with a turn budget large enough    *)
(*                for window compaction (MAX_ACTIVE_TURNS is the program's *)
(*                8);                                                      *)
(*   SpecRerun    the run of SpecLong, made twice on one agent and store;  *)
(*   SpecSandbox  a short run whose commands may time out;                 *)
(*   SpecFlight   a short run at the grain of its awaits;                  *)
(*   SpecMem      direct calls of save_turn and get_turns_range;           *)
(*   SpecCtx      concurrent RedisContextStore.add_context calls;          *)
(*   SpecTask     concurrent TaskStore.create_task calls;                  *)
(*   SpecParse    a direct call of SimpleActionParser.parse;               *)
(*   SpecPipe     a literal block written and parsed by _parse_params;     *)
(*   SpecWrite    a direct call of the Write handler;                      *)
(*   SpecEcho     a direct call of the Grep or the Glob handler;           *)
(*   SpecRetry    a direct call of LLMClient.get_completion;               *)
(*   SpecSearch   a direct call of MemoryManager.search_memory;            *)
(*   SpecSummary  a direct call of MemoryManager.summarize_turns;          *)
(*   SpecDeep     a run of more than twenty turns in which nothing fails;  *)
(*   SpecPrompt   the run of SpecLong with the completion call's argument  *)
(*                recorded;                                                *)
(*   SpecErrors   short and long runs whose replies hold failing blocks;   *)
(*   SpecFence    _parse_single_action on a body, bare and fenced;         *)
(*   SpecTags     parse on a reply given as tags and text;                 *)
(*   SpecTaskOps  TaskStore calls made one after the other;                *)
(*   SpecCtxOps   concurrent add_context and delete_context calls;         *)
(*   SpecRuns     two MemoryManagers with different task ids on one store; *)
(*   SpecAgain    a short run made twice on one agent.                     *)
(***************************************************************************)
EXTENDS Integers, Sequences, FiniteSets, TLC

\* ------------------------------------------------------------------ bounds
\* longest batch handed to ActionHandler.execute in SpecExec
MaxBatch == 3
\* most tag blocks in one model reply (Spec)
MaxBlocks == 2
\* largest max_turns of a run in Spec
MaxTurns == 2
\* max_turns of the runs in SpecLong
LongTurns == 11
\* turn budget of a run in SpecDeep (the first turn at which
\* current_turn - len(messages) + 2 exceeds 1)
DeepTurns == 21
\* most turns saved before a read of the turn log (SpecMem)
MaxSaved == 3
\* most concurrent calls on one store key (SpecCtx, SpecTask)
MaxCallers == 3
\* most tokens (tags and stretches of text) of a reply in SpecTags
MaxTokens == 4
\* most lines of a field value and most characters of a line (SpecPipe)
MaxLines == 3
MaxLineLen == 2
\* largest max_retries an LLMClient is constructed with in SpecRetry (the
\* wait reaches its ceiling of 60 from the seventh failure on)
MaxRetries == 8
\* most blocks of one reply that fail to parse in SpecErrors (past the three
\* that are reported one by one)
MaxErrors == 4
\* most lines a grep or find command prints in SpecEcho (past the larger cap)
MaxOutputLines == 102

\* --------------------------------------------------------- program constants
MAX_ACTIVE_TURNS == 8
max_retries == 5
\* _handle_grep echoes at most 50 matches, _handle_glob at most 100 files
GREP_CAP == 50
GLOB_CAP == 100

VARIABLES
    pc,              \* control point of the call being modelled
    max_turns,       \* argument of run()
    current_turn,    \* self.current_turn
    messages,        \* self.messages (ConversationState)
    done,            \* self.done
    finish_message,  \* self.finish_message
    llm_output,      \* the reply of the turn's completion call
    actions,         \* the batch: execute()'s argument / the turn's parsed actions
    parse_errors,    \* the turn's parse errors
    action_results,  \* execute()'s results
    calls,           \* handler invocations of the last execute(), in order
    exc,             \* the exception a turn raised ("none" when it did not)
    turns,           \* durable store: turn records by turn number
    meta_max_turn,   \* durable store: metadata max_turn (0: no metadata)
    summaries,       \* durable store: summaries by range key
    result,          \* what run() returned
    hist,            \* observation record of the run (not program state)
    redis,           \* the keys of the context store and the task store
    callers,         \* concurrent calls on those stores: position and locals
    inflight,        \* outstanding external operations of a run
    args,            \* arguments of the direct call being modelled
    ret              \* what the direct call returned

vars == <<pc, max_turns, current_turn, messages, done, finish_message,
          llm_output, actions, parse_errors, action_results, calls, exc,
          turns, meta_max_turn, summaries, result, hist,
          redis, callers, inflight, args, ret>>

\* what the orchestrator and the dispatcher leave alone
extVars == <<redis, callers, inflight, args, ret>>

ExtAtRest ==
    /\ redis = <<>>
    /\ callers = <<>>
    /\ inflight = {}
    /\ args = <<>>
    /\ ret = <<>>

\* ------------------------------------------------------------------ helpers
Max(a, b) == IF a >= b THEN a ELSE b

SeqsUpTo(S, n) == UNION {[1..k -> S] : k \in 0..n}

\* Python's seq[-n:]
LastN(s, n) == IF Len(s) <= n THEN s ELSE SubSeq(s, Len(s) - n + 1, Len(s))

\* ============================================================ the dispatcher
\* The action classes of entities/actions.py that the handler table maps.
HandledTypes ==
    {"Bash", "Read", "Write", "Edit", "Grep", "Glob", "Finish",
     "TaskCreate", "LaunchSubagent", "Report"}

\* What the environment does when a handler uses it: the command succeeds,
\* the command fails (non-zero exit), or the port itself raises.
EnvOutcomes == {"ok", "nonzero", "raise"}

\* What a command does in LocalExecutor: it exits with status 0 ("ok") or
\* another status ("nonzero"), it is still running when the timeout expires
\* ("timeout"), or the subprocess cannot be created ("spawn_error").
SandboxOutcomes == {"ok", "nonzero", "timeout", "spawn_error"}

\* (mutant) no except asyncio.TimeoutError: the timeout leaves execute() as an
\* exception and the process is left running
LocalExecuteUncaught(env) ==
    CASE env = "ok" ->
            [raised |-> FALSE, exit_code |-> 0, process |-> "exited"]
      [] env = "timeout" ->
            [raised |-> TRUE, exit_code |-> 0, process |-> "running"]
      [] env = "spawn_error" ->
            [raised |-> FALSE, exit_code |-> 1, process |-> "none"]
      [] OTHER ->
            [raised |-> FALSE, exit_code |-> 1, process |-> "exited"]

\* LocalExecutor.execute: (output, exit_code) and what became of the process.
\* On asyncio.TimeoutError the process is kill()ed and waited for and
\* (message, 124) is returned; any other exception gives (message, 1).
LocalExecute(env) ==
    CASE env = "ok" ->
            [raised |-> FALSE, exit_code |-> 0, process |-> "exited"]
      [] env = "timeout" ->
            [raised |-> FALSE, exit_code |-> 124, process |-> "killed"]
      [] env = "spawn_error" ->
            [raised |-> FALSE, exit_code |-> 1, process |-> "none"]
      [] OTHER ->
            [raised |-> FALSE, exit_code |-> 1, process |-> "exited"]

\* the handlers that run a command in the sandbox
SandboxTypes == {"Bash", "Read", "Write", "Edit", "Grep", "Glob"}

\* what became of the process a handler call started ("none": it started none)
ProcessOf(action, env) ==
    IF action.type \in SandboxTypes /\ env \in SandboxOutcomes
    THEN LocalExecute(env).process
    ELSE "none"

\* One handler call: the result string (its status prefix and the action it is
\* about), or an exception. _handle_finish, _handle_report and
\* _handle_launch_subagent use neither the sandbox nor a store; the others do.
Handler(action, env) ==
    CASE action.type = "Finish" ->
            [raised |-> FALSE, status |-> "ok", of |-> action, code |-> 0]
      [] action.type = "Report" ->
            [raised |-> FALSE, status |-> "ok", of |-> action, code |-> 0]
      [] action.type = "LaunchSubagent" ->
            [raised |-> FALSE, status |-> "warning", of |-> action, code |-> 0]
      [] OTHER ->
            LET r == LocalExecute(env)
            IN  IF env = "raise" \/ r.raised
                THEN [raised |-> TRUE, status |-> "error", of |-> action,
                      code |-> 0]
                ELSE [raised |-> FALSE,
                      status |-> IF r.exit_code = 0 THEN "ok" ELSE "failed",
                      of |-> action,
                      code |-> IF action.type = "Bash" THEN r.exit_code ELSE 0]

\* (mutant) the table is indexed, not looked up with get(): an unmapped class
\* raises KeyError
ExecuteSingleIndexed(action, env) ==
    IF action.type \in HandledTypes
    THEN Handler(action, env)
    ELSE [raised |-> TRUE, status |-> "error", of |-> action, code |-> 0]

\* _execute_single: the table lookup, then the handler or the warning string.
ExecuteSingle(action, env) ==
    IF action.type \in HandledTypes
    THEN Handler(action, env)
    ELSE [raised |-> FALSE, status |-> "unknown", of |-> action, code |-> 0]

\* The result execute() appends for one action: the handler's string, or the
\* error string of the except branch.
ResultOf(action, env) ==
    LET r == ExecuteSingle(action, env)
    IN  IF r.raised
        THEN [status |-> "error", of |-> action, code |-> 0]
        ELSE [status |-> r.status, of |-> r.of, code |-> r.code]

\* (mutant) the try/except is around the loop, not in it: the first handler
\* that raises ends the batch
RECURSIVE ExecuteFromAbort(_, _, _, _)
ExecuteFromAbort(acts, envs, i, acc) ==
    IF i > Len(acts) \/ (i > 1 /\ ExecuteSingle(acts[i - 1], envs[i - 1]).raised)
    THEN acc
    ELSE ExecuteFromAbort(acts, envs, i + 1,
            [results |-> Append(acc.results, ResultOf(acts[i], envs[i])),
             calls   |-> Append(acc.calls,
                            [index |-> i,
                             raised |-> ExecuteSingle(acts[i], envs[i]).raised,
                             timeout |-> /\ envs[i] = "timeout"
                                         /\ acts[i].type \in SandboxTypes,
                             process |-> ProcessOf(acts[i], envs[i])])])

\* execute(): the for loop over the batch, one try/except per action. envs[i]
\* is what the environment does for the i-th action. Returns the results and
\* the _execute_single invocations in order, each with whether it raised,
\* whether its command timed out and what became of its process.
RECURSIVE ExecuteFrom(_, _, _, _)
ExecuteFrom(acts, envs, i, acc) ==
    IF i > Len(acts)
    THEN acc
    ELSE ExecuteFrom(acts, envs, i + 1,
            [results |-> Append(acc.results, ResultOf(acts[i], envs[i])),
             calls   |-> Append(acc.calls,
                            [index |-> i,
                             raised |-> ExecuteSingle(acts[i], envs[i]).raised,
                             timeout |-> /\ envs[i] = "timeout"
                                         /\ acts[i].type \in SandboxTypes,
                             process |-> ProcessOf(acts[i], envs[i])])])

Execute(acts, envs) ==
    ExecuteFrom(acts, envs, 1, [results |-> <<>>, calls |-> <<>>])

\* ------------------------------------------------ SpecExec: execute(batch)
\* The action values a caller can hand to execute(): mapped classes and
\* "Action", the base class, which the table does not map.
ExecTypes == {"Bash", "Finish", "Action"}
ExecArgs == {"a", "b"}
ExecActions == [type : ExecTypes, arg : ExecArgs]

\* self.finish_message: None, the message of a Finish action, or the canned
\* "Task incomplete: reached maximum turns (n)".
NoMessage == [kind |-> "null", text |-> "", n |-> 0]
FinishText(m) == [kind |-> "model", text |-> m, n |-> 0]
IncompleteMessage(n) == [kind |-> "incomplete", text |-> "", n |-> n]

NoResult == [completed |-> FALSE, finish_message |-> NoMessage,
             turns_executed |-> 0, max_turns_reached |-> FALSE,
             total_turns |-> 0, summaries_count |-> 0]

\* What is observed of a run: the first turn whose reply held a finish block
\* (0: none yet) and the message of that block, whether a turn raised, the
\* first turn whose completion call exhausted its attempts (0: none),
\* ConversationState when the turn began (pre) and after its compaction step
\* (base), whether that step compacted, whether summarize_turns was ever
\* invoked for a range whose summary was already saved, and how many times
\* run() has been called on the agent.
NoHist == [finishTurn |-> 0, finishArg |-> "", failed |-> FALSE,
           exhausted |-> 0, pre |-> <<>>, base |-> <<>>, compacted |-> FALSE,
           resummarized |-> FALSE, runs |-> 1]

\* Everything outside the call being modelled, at rest.
AtRest ==
    /\ max_turns = 0
    /\ current_turn = 0
    /\ messages = <<>>
    /\ done = FALSE
    /\ finish_message = NoMessage
    /\ llm_output = <<>>
    /\ parse_errors = <<>>
    /\ exc = "none"
    /\ turns = <<>>
    /\ meta_max_turn = 0
    /\ summaries = <<>>
    /\ result = NoResult

InitExec ==
    /\ AtRest
    /\ ExtAtRest
    /\ pc = "x_ready"
    /\ actions \in SeqsUpTo(ExecActions, MaxBatch)
    /\ action_results = <<>>
    /\ calls = <<>>
    /\ hist = NoHist

ExecuteCall ==
    /\ pc = "x_ready"
    /\ \E envs \in [1..Len(actions) -> EnvOutcomes] :
          LET r == Execute(actions, envs)
          IN  /\ action_results' = r.results
              /\ calls' = r.calls
    /\ pc' = "x_done"
    /\ UNCHANGED <<max_turns, current_turn, messages, done, finish_message,
                   llm_output, actions, parse_errors, exc, turns,
                   meta_max_turn, summaries, result, hist>>
    /\ UNCHANGED extVars

NextExec == ExecuteCall

SpecExec == InitExec /\ [][NextExec]_vars

\* C1: execute returns exactly one result per input action, the i-th result
\* being the result of the i-th action, whatever handlers fail or are unmapped.
C1_OneResultPerAction ==
    pc = "x_done" =>
        /\ Len(action_results) = Len(actions)
        /\ \A i \in 1..Len(actions) : action_results[i].of = actions[i]

\* C1 witness: a batch of three where one handler raised, one action is
\* unmapped and one succeeded has been executed.
C1_Witness ==
    /\ pc = "x_done"
    /\ Len(actions) = 3
    /\ Len(calls) = 3
    /\ \E i, j, k \in 1..3 :
          /\ calls[i].raised
          /\ actions[j].type \notin HandledTypes
          /\ action_results[k].status = "ok"

\* C8: when the i-th handler raises, or the i-th action has no handler, the
\* i-th result is the error or the warning string, and every action of the
\* batch, those after i included, is executed exactly once, in input order.
C8_FailureIsolated ==
    pc = "x_done" =>
        /\ Len(calls) = Len(actions)
        /\ \A i \in 1..Len(actions) :
              /\ calls[i].index = i
              /\ calls[i].raised => action_results[i].status = "error"
              /\ actions[i].type \notin HandledTypes
                    => action_results[i].status = "unknown"

\* C8 witness: the first handler raised and a later action still ran and
\* succeeded.
C8_Witness ==
    /\ pc = "x_done"
    /\ Len(actions) >= 2
    /\ Len(calls) = Len(actions)
    /\ calls[1].raised
    /\ action_results[Len(actions)].status = "ok"

\* ======================================================= the completion client
AttemptOutcomes == {"ok", "transient", "fatal"}

\* What the service does on each of the attempts a call may make.
LLMScripts == [1..max_retries -> AttemptOutcomes]

RECURSIVE Pow2(_)
Pow2(n) == IF n = 0 THEN 1 ELSE 2 * Pow2(n - 1)
Min(a, b) == IF a <= b THEN a ELSE b

\* The loop with the wait left uncapped: 2 ** attempt.
RECURSIVE GetCompletionFromUncapped(_, _, _, _)
GetCompletionFromUncapped(retries, script, attempt, waits) ==
    IF attempt >= retries
    THEN [status |-> "none", attempts |-> attempt, waits |-> waits, error |-> "none"]
    ELSE CASE script[attempt + 1] = "ok" ->
                [status |-> "ok", attempts |-> attempt + 1, waits |-> waits,
                 error |-> "none"]
           [] script[attempt + 1] = "transient" ->
                IF attempt < retries - 1
                THEN GetCompletionFromUncapped(retries, script, attempt + 1,
                        Append(waits, Pow2(attempt)))
                ELSE [status |-> "raise", attempts |-> attempt + 1,
                      waits |-> waits, error |-> "exhausted"]
           [] OTHER ->
                [status |-> "raise", attempts |-> attempt + 1, waits |-> waits,
                 error |-> "fatal"]

\* get_completion: the for loop over range(retries). attempt counts from 0;
\* script[attempt + 1] is what the service does on that attempt. Returns how
\* the call ended ("ok": the text, "raise", or "none": the loop ran out),
\* the attempts made and the waits slept.
RECURSIVE GetCompletionFrom(_, _, _, _)
GetCompletionFrom(retries, script, attempt, waits) ==
    IF attempt >= retries
    THEN [status |-> "none", attempts |-> attempt, waits |-> waits, error |-> "none"]
    ELSE CASE script[attempt + 1] = "ok" ->
                [status |-> "ok", attempts |-> attempt + 1, waits |-> waits,
                 error |-> "none"]
           [] script[attempt + 1] = "transient" ->
                IF attempt < retries - 1
                THEN GetCompletionFrom(retries, script, attempt + 1,
                        Append(waits, Min(Pow2(attempt), 60)))
                ELSE [status |-> "raise", attempts |-> attempt + 1,
                      waits |-> waits, error |-> "exhausted"]
           [] OTHER ->
                [status |-> "raise", attempts |-> attempt + 1, waits |-> waits,
                 error |-> "fatal"]

GetCompletion(retries, script) == GetCompletionFrom(retries, script, 0, <<>>)

\* ================================================================ the parser
\* ACTION_TYPE_MAP: tag name (lower case) to action class. A tag it does not
\* hold, "recall" included, has no class.
TagClass(tag) ==
    CASE tag \in {"read", "file"} -> "Read"
      [] tag = "write" -> "Write"
      [] tag = "edit" -> "Edit"
      [] tag = "bash" -> "Bash"
      [] tag = "finish" -> "Finish"
      [] tag \in {"grep", "search"} -> "Grep"
      [] tag \in {"glob", "find"} -> "Glob"
      [] tag = "task_create" -> "TaskCreate"
      [] tag = "launch_subagent" -> "LaunchSubagent"
      [] tag = "report" -> "Report"
      [] OTHER -> "none"

\* tag_name.lower(), on the tags the model writes in upper case
Lower(tag) ==
    CASE tag = "BASH" -> "bash"
      [] tag = "Finish" -> "finish"
      [] OTHER -> tag

\* parse() over the matched blocks of a reply, in document order. A block is
\* its tag, whether its body validates as the class's fields, and its
\* payload. Unknown tags are dropped; finish takes the body as it is; a known
\* tag whose body does not validate gives one error.
\* (mutant) the try/except is around the loop: the first block that fails
\* ends the parse
RECURSIVE ParseFromStopAtError(_, _, _)
ParseFromStopAtError(blocks, i, acc) ==
    IF i > Len(blocks) \/ acc.errors # <<>>
    THEN acc
    ELSE LET b == blocks[i]
             cls == TagClass(Lower(b.tag))
         IN  ParseFromStopAtError(blocks, i + 1,
                CASE cls = "none" -> acc
                  [] cls = "Finish" \/ b.valid ->
                        [acc EXCEPT !.actions =
                            Append(@, [type |-> cls, arg |-> b.arg])]
                  [] OTHER ->
                        [acc EXCEPT !.errors = Append(@, Lower(b.tag))])

\* (mutant) actions.insert(0, action): the actions come out last block first
RECURSIVE ParseFromPrepend(_, _, _)
ParseFromPrepend(blocks, i, acc) ==
    IF i > Len(blocks)
    THEN acc
    ELSE LET b == blocks[i]
             cls == TagClass(Lower(b.tag))
         IN  ParseFromPrepend(blocks, i + 1,
                CASE cls = "none" -> acc
                  [] cls = "Finish" \/ b.valid ->
                        [acc EXCEPT !.actions =
                            <<[type |-> cls, arg |-> b.arg]>> \o @]
                  [] OTHER ->
                        [acc EXCEPT !.errors = Append(@, Lower(b.tag))])

RECURSIVE ParseFrom(_, _, _)
ParseFrom(blocks, i, acc) ==
    IF i > Len(blocks)
    THEN acc
    ELSE LET b == blocks[i]
             cls == TagClass(Lower(b.tag))
         IN  ParseFrom(blocks, i + 1,
                CASE cls = "none" -> acc
                  [] cls = "Finish" \/ b.valid ->
                        [acc EXCEPT !.actions =
                            Append(@, [type |-> cls, arg |-> b.arg])]
                  [] OTHER ->
                        [acc EXCEPT !.errors = Append(@, Lower(b.tag))])

Parse(blocks) == ParseFrom(blocks, 1, [actions |-> <<>>, errors |-> <<>>])

\* ========================================================= the memory manager
Dom(f) == DOMAIN f

\* the store with turn record rec under its turn number
PutTurn(store, rec) ==
    [n \in Dom(store) \cup {rec.turn_num} |->
        IF n = rec.turn_num THEN rec ELSE store[n]]

\* get_turn
GetTurn(store, n) == IF n \in Dom(store) THEN <<store[n]>> ELSE <<>>

\* (mutant) the loop is range(start, end): the end turn is left out
RECURSIVE GetTurnsRangeExclusive(_, _, _)
GetTurnsRangeExclusive(store, start, end) ==
    IF start >= end
    THEN <<>>
    ELSE GetTurn(store, start) \o GetTurnsRangeExclusive(store, start + 1, end)

\* get_turns_range: range(start, end + 1), skipping the turns not stored
RECURSIVE GetTurnsRange(_, _, _)
GetTurnsRange(store, start, end) ==
    IF start > end
    THEN <<>>
    ELSE GetTurn(store, start) \o GetTurnsRange(store, start + 1, end)

\* get_all_turns
GetAllTurns(store, maxTurn) ==
    IF maxTurn = 0 THEN <<>> ELSE GetTurnsRange(store, 1, maxTurn)

\* One line of a summary text: the header, the model's text, the message
\* that no turn was found, or a stored turn with the names of its actions.
SummaryLine(line, lo, hi, names) ==
    [line |-> line, lo |-> lo, hi |-> hi, actions |-> names]

\* _simple_summary: the header line, then one line per stored turn with its
\* actions ("thinking" when it has none)
SimpleSummary(found, start, end) ==
    <<SummaryLine("header", start, end, <<>>)>>
    \o [i \in 1..Len(found) |->
            SummaryLine("turn", found[i].turn_num, found[i].turn_num,
                        IF found[i].actions = <<>> THEN <<"thinking">>
                        ELSE found[i].actions)]

\* What a summarizer call gives: whether it raised, the text, and the
\* attempts made on the completion service.
SummaryOutcome(raised, text, attempts) ==
    [raised |-> raised, text |-> text, attempts |-> attempts]

\* (mutant) no try around the completion call
LLMSummaryOutcomeUncaught(found, start, end, script) ==
    LET r == GetCompletion(max_retries, script)
    IN  IF r.status = "raise"
        THEN SummaryOutcome(TRUE, <<>>, r.attempts)
        ELSE SummaryOutcome(FALSE,
                <<SummaryLine("header", start, end, <<>>),
                  SummaryLine("llm", start, end, <<>>)>>, r.attempts)

\* _llm_summary: the header and the model's text, or the simple summary when
\* the completion call raises
LLMSummaryOutcome(found, start, end, script) ==
    LET r == GetCompletion(max_retries, script)
    IN  IF r.status = "raise"
        THEN SummaryOutcome(FALSE, SimpleSummary(found, start, end), r.attempts)
        ELSE SummaryOutcome(FALSE,
                <<SummaryLine("header", start, end, <<>>),
                  SummaryLine("llm", start, end, <<>>)>>, r.attempts)

LLMSummary(found, start, end, script) ==
    LLMSummaryOutcome(found, start, end, script).text

\* summarize_turns, with a client configured or not
SummarizeTurnsOutcome(store, start, end, client, script) ==
    LET found == GetTurnsRange(store, start, end)
    IN  IF found = <<>>
        THEN SummaryOutcome(FALSE, <<SummaryLine("none", start, end, <<>>)>>, 0)
        ELSE IF ~client
        THEN SummaryOutcome(FALSE, SimpleSummary(found, start, end), 0)
        ELSE LLMSummaryOutcome(found, start, end, script)

\* summarize_turns, with the client the orchestrator configures
SummarizeTurns(store, start, end, script) ==
    SummarizeTurnsOutcome(store, start, end, TRUE, script).text

\* save_summary: summaries[turn_range] = {summary, timestamp}
SaveSummary(sums, key, text) ==
    [k \in Dom(sums) \cup {key} |-> IF k = key THEN text ELSE sums[k]]

\* get_summary: the saved text, or None (the empty text here)
GetSummary(sums, key) == IF key \in Dom(sums) THEN sums[key] ELSE <<>>

\* ============================================================ the orchestrator
\* A message of ConversationState: its role and what its content is (the task,
\* the reply of a turn, the results of a turn, the error of a turn, or a
\* summary of the turns lo..hi with its text).
Msg(role, kind, turn, lo, hi, text) ==
    [role |-> role, kind |-> kind, turn |-> turn, lo |-> lo, hi |-> hi,
     text |-> text]
SystemMsg == Msg("system", "system", 0, 0, 0, <<>>)
TaskMsg == Msg("user", "task", 0, 0, 0, <<>>)
AssistantMsg(t) == Msg("assistant", "reply", t, 0, 0, <<>>)
ResultsMsg(t, errors) == Msg("user", "results", t, 0, 0, errors)
ErrorMsg(t) == Msg("user", "error", t, 0, 0, <<>>)
SummaryMsg(lo, hi, text) == Msg("user", "summary", 0, lo, hi, text)

\* "... and N more"
MoreLine(n) == "... and " \o ToString(n) \o " more"

\* (mutant) the first two errors only, as the console shows them
FormatErrorsFirstTwo(errors) ==
    IF Len(errors) > 2 THEN SubSeq(errors, 1, 2) ELSE errors

\* _format_results, the parse-error part: the first three errors and, when
\* there are more, a line with the count of the rest
FormatErrors(errors) ==
    IF Len(errors) > 3
    THEN SubSeq(errors, 1, 3) \o <<MoreLine(Len(errors) - 3)>>
    ELSE errors

storeVars == <<turns, meta_max_turn, summaries>>
turnLocals == <<llm_output, actions, parse_errors, action_results, calls>>

\* run(), up to the loop: the counter and ConversationState are set; done and
\* finish_message are what the constructor left.
RunStart ==
    /\ pc = "idle"
    /\ pc' = "loop"
    /\ current_turn' = 0
    /\ messages' = <<SystemMsg, TaskMsg>>
    /\ UNCHANGED <<max_turns, done, finish_message, turnLocals, exc, storeVars,
                   result, hist>>
    /\ UNCHANGED extVars

\* (mutant) the loop test is current_turn <= max_turns
LoopTestOffByOne ==
    /\ pc = "loop"
    /\ IF ~done /\ current_turn <= max_turns
       THEN /\ current_turn' = current_turn + 1
            /\ pc' = "manage"
            /\ exc' = "none"
            /\ llm_output' = <<>>
            /\ actions' = <<>>
            /\ parse_errors' = <<>>
            /\ action_results' = <<>>
            /\ calls' = <<>>
            /\ hist' = [hist EXCEPT !.pre = messages,
                                    !.base = messages, !.compacted = FALSE]
       ELSE /\ pc' = "exit"
            /\ UNCHANGED <<current_turn, exc, turnLocals, hist>>
    /\ UNCHANGED <<max_turns, messages, done, finish_message, storeVars, result>>
    /\ UNCHANGED extVars

\* while not self.done and self.current_turn < max_turns: current_turn += 1
LoopTest ==
    /\ pc = "loop"
    /\ IF ~done /\ current_turn < max_turns
       THEN /\ current_turn' = current_turn + 1
            /\ pc' = "manage"
            /\ exc' = "none"
            /\ llm_output' = <<>>
            /\ actions' = <<>>
            /\ parse_errors' = <<>>
            /\ action_results' = <<>>
            /\ calls' = <<>>
            /\ hist' = [hist EXCEPT !.pre = messages,
                                    !.base = messages, !.compacted = FALSE]
       ELSE /\ pc' = "exit"
            /\ UNCHANGED <<current_turn, exc, turnLocals, hist>>
    /\ UNCHANGED <<max_turns, messages, done, finish_message, storeVars, result>>
    /\ UNCHANGED extVars

NonSystem(msgs) == Cardinality({i \in 1..Len(msgs) : msgs[i].role # "system"})

\* What the store does during the compaction: nothing wrong, the read of
\* get_turns_range raises, save_summary raises before its write, or after it.
CompactionOutcomes == {"ok", "read", "save_set", "save_expire"}

\* (mutant) the task message is not kept
CompactedDropTask(msgs, start_turn, end_turn, text) ==
    <<msgs[1], SummaryMsg(start_turn, end_turn, text)>>
    \o LastN(msgs, MAX_ACTIVE_TURNS * 2)

\* self.messages after a compaction:
\* [system_msg, initial_task, summary_msg] + recent_messages
Compacted(msgs, start_turn, end_turn, text) ==
    <<msgs[1], msgs[2], SummaryMsg(start_turn, end_turn, text)>>
    \o LastN(msgs, MAX_ACTIVE_TURNS * 2)

\* _manage_memory, with the completion service of the summarizer behaving as
\* one of scripts and the store as one of outs: what it does to the run
ManageMemoryCore(scripts, outs) ==
    /\ pc = "manage"
    /\ LET n == Len(messages)
           turns_to_keep == MAX_ACTIVE_TURNS * 2
           middle_start == 2
           middle_end == n - turns_to_keep
           start_turn == Max(1, current_turn - n + middle_start)
           end_turn == current_turn - turns_to_keep \div 2
           key == <<start_turn, end_turn>>
       IN  IF NonSystem(messages) <= MAX_ACTIVE_TURNS * 2 \/ ~(middle_end > middle_start)
           THEN /\ pc' = "llm"
                /\ UNCHANGED <<messages, summaries, exc, hist>>
           ELSE \E script \in scripts, out \in outs :
                  LET text == SummarizeTurns(turns, start_turn, end_turn, script)
                  IN  /\ summaries' = IF out \in {"ok", "save_expire"}
                                      THEN SaveSummary(summaries, key, text)
                                      ELSE summaries
                      /\ IF out = "ok"
                         THEN /\ messages' =
                                    Compacted(messages, start_turn, end_turn, text)
                              /\ pc' = "llm"
                              /\ exc' = exc
                              /\ hist' = [hist EXCEPT
                                    !.base = messages',
                                    !.compacted = TRUE,
                                    !.resummarized = @ \/ key \in Dom(summaries)]
                         ELSE /\ pc' = "except"
                              /\ exc' = "compaction"
                              /\ messages' = messages
                              /\ hist' = [hist EXCEPT
                                    !.resummarized = @ \/ key \in Dom(summaries)]
    /\ UNCHANGED <<max_turns, current_turn, done, finish_message, turnLocals,
                   turns, meta_max_turn, result>>

\* _manage_memory in a run that is looked at through its own variables only
ManageMemoryWith(scripts, outs) ==
    /\ ManageMemoryCore(scripts, outs)
    /\ UNCHANGED extVars

\* _manage_memory with a store that may fail in every way
ManageMemory(scripts) == ManageMemoryWith(scripts, CompactionOutcomes)

HasFinish(blocks) == \E i \in 1..Len(blocks) : TagClass(blocks[i].tag) = "Finish"

\* the message of the first finish block of a reply that holds one
FirstFinishArg(blocks) ==
    blocks[CHOOSE i \in 1..Len(blocks) :
              /\ TagClass(blocks[i].tag) = "Finish"
              /\ \A j \in 1..(i - 1) : TagClass(blocks[j].tag) # "Finish"].arg

\* llm_client.get_completion(messages): the reply, or the exception of the
\* attempt that ended the call
CallLLMCore(scripts, replies) ==
    /\ pc = "llm"
    /\ \E r \in {GetCompletion(max_retries, script) : script \in scripts} :
              IF r.status = "ok"
              THEN \E reply \in replies :
                      /\ llm_output' = reply
                      /\ pc' = "parse"
                      /\ exc' = exc
                      /\ hist' = IF hist.finishTurn = 0 /\ HasFinish(reply)
                                 THEN [hist EXCEPT !.finishTurn = current_turn,
                                                   !.finishArg = FirstFinishArg(reply)]
                                 ELSE hist
              ELSE /\ pc' = "except"
                   /\ exc' = IF r.status = "none" THEN "llm_none"
                             ELSE IF r.error = "exhausted" THEN "llm_exhausted"
                             ELSE "llm_fatal"
                   /\ hist' = IF hist.exhausted = 0 /\ r.error = "exhausted"
                              THEN [hist EXCEPT !.exhausted = current_turn]
                              ELSE hist
                   /\ UNCHANGED llm_output
    /\ UNCHANGED <<max_turns, current_turn, messages, done, finish_message,
                   actions, parse_errors, action_results, calls, storeVars, result>>

\* the turn's completion call in a run that is looked at through its own
\* variables only
CallLLM(scripts, replies) ==
    /\ CallLLMCore(scripts, replies)
    /\ UNCHANGED extVars

IsRecall(a) == a.type = "Recall"
IsOther(a) == a.type # "Recall"

\* action_parser.parse(llm_output), then the recall actions handled locally;
\* a store read of a recall may raise
ParseTurn ==
    /\ pc = "parse"
    /\ LET p == Parse(llm_output)
       IN  /\ actions' = p.actions
           /\ parse_errors' = p.errors
           /\ \E out \in {"ok", "raise"} :
                 IF SelectSeq(p.actions, IsRecall) # <<>> /\ out = "raise"
                 THEN pc' = "except" /\ exc' = "recall"
                 ELSE pc' = "dispatch" /\ exc' = exc
    /\ UNCHANGED <<max_turns, current_turn, messages, done, finish_message,
                   llm_output, action_results, calls, storeVars, result, hist>>
    /\ UNCHANGED extVars

\* (mutant) the scan does not stop at the first Finish: the last one counts
LastFinish(acts) ==
    IF \E i \in 1..Len(acts) : acts[i].type = "Finish"
    THEN CHOOSE i \in 1..Len(acts) :
            /\ acts[i].type = "Finish"
            /\ \A j \in (i + 1)..Len(acts) : acts[j].type # "Finish"
    ELSE 0

\* index of the first Finish action of a batch, 0 when it holds none
FirstFinish(acts) ==
    IF \E i \in 1..Len(acts) : acts[i].type = "Finish"
    THEN CHOOSE i \in 1..Len(acts) :
            /\ acts[i].type = "Finish"
            /\ \A j \in 1..(i - 1) : acts[j].type # "Finish"
    ELSE 0

\* (mutant) the batch is dispatched only up to its first Finish
DispatchUntilFinish(envset) ==
    /\ pc = "dispatch"
    /\ LET all_others == SelectSeq(actions, IsOther)
           f == FirstFinish(all_others)
           other_actions == IF f = 0 THEN all_others ELSE SubSeq(all_others, 1, f)
       IN  \E envs \in [1..Len(other_actions) -> envset] :
              LET r == Execute(other_actions, envs)
              IN  /\ action_results' = r.results
                  /\ calls' = r.calls
    /\ pc' = "scan"
    /\ UNCHANGED <<max_turns, current_turn, messages, done, finish_message,
                   llm_output, actions, parse_errors, exc, storeVars, result,
                   hist>>
    /\ UNCHANGED extVars

\* action_handler.execute(other_actions)
Dispatch(envset) ==
    /\ pc = "dispatch"
    /\ LET other_actions == SelectSeq(actions, IsOther)
       IN  \E envs \in [1..Len(other_actions) -> envset] :
              LET r == Execute(other_actions, envs)
              IN  /\ action_results' = r.results
                  /\ calls' = r.calls
    /\ pc' = "scan"
    /\ UNCHANGED <<max_turns, current_turn, messages, done, finish_message,
                   llm_output, actions, parse_errors, exc, storeVars, result,
                   hist>>
    /\ UNCHANGED extVars

\* the scan of other_actions for a FinishAction
FinishScan ==
    /\ pc = "scan"
    /\ LET other_actions == SelectSeq(actions, IsOther)
           f == FirstFinish(other_actions)
       IN  IF f # 0
           THEN /\ done' = TRUE
                /\ finish_message' = FinishText(other_actions[f].arg)
           ELSE UNCHANGED <<done, finish_message>>
    /\ pc' = "save"
    /\ UNCHANGED <<max_turns, current_turn, messages, turnLocals, exc, storeVars,
                   result, hist>>
    /\ UNCHANGED extVars

\* What the store does during save_turn: nothing wrong, or the call that
\* raises: set or expire of the turn key, the read, set or expire of the
\* metadata key.
SaveOutcomes == {"ok", "set", "expire", "meta_get", "meta_set", "meta_expire"}

TurnRecord(t, acts) ==
    [turn_num |-> t, actions |-> [i \in 1..Len(acts) |-> acts[i].type]]

\* memory_manager.save_turn(...), then the assistant message and, unless the
\* run is done, the user message with the results
SaveTurn(outs) ==
    /\ pc = "save"
    /\ \E out \in outs :
          /\ turns' = IF out = "set" THEN turns
                      ELSE PutTurn(turns, TurnRecord(current_turn, actions))
          /\ meta_max_turn' = IF out \in {"ok", "meta_expire"}
                              THEN Max(meta_max_turn, current_turn)
                              ELSE meta_max_turn
          /\ IF out = "ok"
             THEN /\ messages' =
                        Append(messages, AssistantMsg(current_turn))
                        \o (IF done THEN <<>>
                            ELSE <<ResultsMsg(current_turn,
                                             FormatErrors(parse_errors))>>)
                  /\ pc' = "loop"
                  /\ exc' = exc
             ELSE /\ pc' = "except"
                  /\ exc' = "save_turn"
                  /\ UNCHANGED messages
    /\ UNCHANGED <<max_turns, current_turn, done, finish_message, turnLocals,
                   summaries, result, hist>>
    /\ UNCHANGED extVars

\* (mutant) the handler re-raises: the exception leaves run()
TurnExceptReraise ==
    /\ pc = "except"
    /\ pc' = "raised"
    /\ hist' = [hist EXCEPT !.failed = TRUE]
    /\ UNCHANGED <<max_turns, current_turn, messages, done, finish_message,
                   turnLocals, exc, storeVars, result>>
    /\ UNCHANGED extVars

\* (mutant) the handler only logs: no message is appended
TurnExceptSilent ==
    /\ pc = "except"
    /\ pc' = "loop"
    /\ hist' = [hist EXCEPT !.failed = TRUE]
    /\ UNCHANGED <<max_turns, current_turn, messages, done, finish_message,
                   turnLocals, exc, storeVars, result>>
    /\ UNCHANGED extVars

\* (mutant) the handler ends the run: the loop is not entered again
TurnExceptAbort ==
    /\ pc = "except"
    /\ messages' = Append(messages, ErrorMsg(current_turn))
    /\ pc' = "exit"
    /\ hist' = [hist EXCEPT !.failed = TRUE]
    /\ UNCHANGED <<max_turns, current_turn, done, finish_message, turnLocals,
                   exc, storeVars, result>>
    /\ UNCHANGED extVars

\* except Exception as e: the error message is appended
TurnExcept ==
    /\ pc = "except"
    /\ messages' = Append(messages, ErrorMsg(current_turn))
    /\ pc' = "loop"
    /\ hist' = [hist EXCEPT !.failed = TRUE]
    /\ UNCHANGED <<max_turns, current_turn, done, finish_message, turnLocals,
                   exc, storeVars, result>>
    /\ UNCHANGED extVars

\* After the loop: the canned message of a run that is not done, the memory
\* statistics (two store reads, which may raise), and the returned record.
ReturnResult(outs) ==
    /\ pc = "exit"
    /\ LET fm == IF ~done THEN IncompleteMessage(max_turns) ELSE finish_message
       IN  /\ finish_message' = fm
           /\ \E out \in outs :
                 IF out = "ok"
                 THEN /\ pc' = "returned"
                      /\ result' =
                            [completed |-> done,
                             finish_message |-> fm,
                             turns_executed |-> current_turn,
                             max_turns_reached |-> current_turn >= max_turns,
                             total_turns |-> meta_max_turn,
                             summaries_count |-> Cardinality(Dom(summaries))]
                 ELSE /\ pc' = "raised"
                      /\ UNCHANGED result
    /\ UNCHANGED <<max_turns, current_turn, messages, done, turnLocals, exc,
                   storeVars, hist>>
    /\ UNCHANGED extVars

\* ------------------------------------------------------- Spec: a short run
\* The blocks a reply is made of in Spec: a bash block that validates and one
\* that does not, two finish blocks, and a recall block.
RunBlocks ==
    {[tag |-> "bash", valid |-> TRUE, arg |-> "a"],
     [tag |-> "bash", valid |-> FALSE, arg |-> "a"],
     [tag |-> "finish", valid |-> TRUE, arg |-> "done"],
     [tag |-> "finish", valid |-> TRUE, arg |-> "ok"],
     [tag |-> "recall", valid |-> TRUE, arg |-> "a"]}

Replies == SeqsUpTo(RunBlocks, MaxBlocks)

InitRun(budgets) ==
    /\ ExtAtRest
    /\ pc = "idle"
    /\ max_turns \in budgets
    /\ current_turn = 0
    /\ messages = <<>>
    /\ done = FALSE
    /\ finish_message = NoMessage
    /\ llm_output = <<>>
    /\ actions = <<>>
    /\ parse_errors = <<>>
    /\ action_results = <<>>
    /\ calls = <<>>
    /\ exc = "none"
    /\ turns = <<>>
    /\ meta_max_turn = 0
    /\ summaries = <<>>
    /\ result = NoResult
    /\ hist = NoHist

Init == InitRun(0..MaxTurns)

Next ==
    \/ RunStart
    \/ LoopTest
    \/ ManageMemory(LLMScripts)
    \/ CallLLM(LLMScripts, Replies)
    \/ ParseTurn
    \/ Dispatch(EnvOutcomes)
    \/ FinishScan
    \/ SaveTurn(SaveOutcomes)
    \/ TurnExcept
    \/ ReturnResult({"ok", "raise"})

Spec == Init /\ [][Next]_vars

\* ----------------------------------------------------------- claims on Spec
LoopLeft == pc \in {"exit", "returned", "raised"}

\* C2: a run with max_turns = k whose model never emits a finish block leaves
\* the loop after exactly k turns, not done, and what it returns is
\* turns_executed = k, completed = false, max_turns_reached = true and the
\* canned message, whatever turns failed.
C2_BudgetExhausted ==
    (hist.finishTurn = 0 /\ LoopLeft) =>
        /\ current_turn = max_turns
        /\ ~done
        /\ pc = "returned" =>
              /\ result.turns_executed = max_turns
              /\ result.completed = FALSE
              /\ result.max_turns_reached = TRUE
              /\ result.finish_message = IncompleteMessage(max_turns)

\* C2 witness: a run of two turns, one that failed and one that did not, has
\* returned without the model ever emitting finish.
C2_Witness ==
    /\ pc = "returned"
    /\ hist.finishTurn = 0
    /\ result.turns_executed = 2
    /\ \E i, j \in 1..Len(messages) :
          messages[i].kind = "error" /\ messages[j].kind = "results"

\* C3: when no turn fails and the first reply holding a finish block is that
\* of turn j, the loop is left right after turn j: the run is done, the
\* counter is j, the finish message is the block's, the returned record says
\* so, and once the run is done no step belongs to a further turn (no
\* completion call is made).
C3_FinishEndsRun ==
    /\ done => pc \in {"save", "except", "loop", "exit", "returned", "raised"}
    /\ (hist.finishTurn # 0 /\ ~hist.failed /\ pc \in {"loop", "exit", "returned", "raised"}) =>
          /\ done
          /\ current_turn = hist.finishTurn
          /\ finish_message = FinishText(hist.finishArg)
          /\ pc = "returned" =>
                /\ result.completed = TRUE
                /\ result.turns_executed = hist.finishTurn
                /\ result.finish_message = FinishText(hist.finishArg)

\* C3 witness: a bash action on turn 1, then finish "ok" on turn 2, returned.
C3_Witness ==
    /\ pc = "returned"
    /\ ~hist.failed
    /\ result.turns_executed = 2
    /\ result.completed
    /\ result.finish_message = FinishText("ok")
    /\ 1 \in Dom(turns) /\ turns[1].actions = <<"Bash">>

\* C4 as claimed: run() never leaves by an exception.
C4_NeverRaises == pc # "raised"

\* C4 amended: run() leaves only after the loop has ended (the run is done or
\* the budget is used up) and with finish_message set, so no exception of a
\* turn reaches the caller; when it returns, the record carries that message.
\* The one exception that reaches the caller is that of the final
\* get_memory_stats store read.
C4_LeavesAfterLoop ==
    /\ pc \in {"returned", "raised"} =>
          /\ finish_message # NoMessage
          /\ done \/ current_turn >= max_turns
    /\ pc = "returned" => result.finish_message = finish_message

\* C4 witness: every turn of a two-turn run raised, the last one in the
\* durable store, and the run returned.
C4_Witness ==
    /\ pc = "returned"
    /\ result.turns_executed = 2
    /\ exc = "save_turn"
    /\ \A i \in 3..Len(messages) : messages[i].kind = "error"

\* C5: an exception of a turn is caught: nothing but one error message of
\* that turn is appended to ConversationState as it was after the turn's
\* compaction step; the run is done only if the turn's Finish was already
\* scanned; and when it is not done and budget remains the next turn starts.
C5_TurnErrorCaught ==
    /\ pc = "except" => exc # "none" /\ messages = hist.base
    /\ (pc = "loop" /\ exc # "none") =>
          /\ messages = Append(hist.base, ErrorMsg(current_turn))
          /\ done <=> (exc = "save_turn"
                        /\ FirstFinish(SelectSeq(actions, IsOther)) # 0)
          /\ (~done /\ current_turn < max_turns) =>
                ENABLED (LoopTest /\ pc' = "manage")

\* C5 witness: turn 1 raised in the completion call and turn 2 has begun.
C5_Witness ==
    /\ pc = "llm"
    /\ current_turn = 2
    /\ messages = <<SystemMsg, TaskMsg, ErrorMsg(1)>>

\* C6 as claimed: once a completion call has exhausted its attempts, no
\* further turn is executed.
C6_ExhaustionEndsRun ==
    hist.exhausted # 0 => current_turn = hist.exhausted

\* C6 amended: when the completion call of a turn exhausts its attempts, the
\* error is a turn-local one: its message ends ConversationState, the run is
\* not done, and when budget remains the next step starts the next turn.
C6_ExhaustionIsTurnLocal ==
    /\ [](hist.exhausted # 0 /\ LoopLeft /\ ~done => current_turn = max_turns)
    /\ [][(pc = "loop" /\ exc = "llm_exhausted" /\ current_turn < max_turns) =>
            /\ messages[Len(messages)] = ErrorMsg(current_turn)
            /\ pc' = "manage"
            /\ current_turn' = current_turn + 1
            /\ ~done']_vars

\* C6 witness: a turn is under way after the completion call of an earlier
\* turn exhausted its attempts.
C6_Witness ==
    /\ hist.exhausted # 0
    /\ current_turn > hist.exhausted
    /\ pc = "parse"

AllDispatchedOnce ==
    LET other_actions == SelectSeq(actions, IsOther)
    IN  /\ Len(calls) = Len(other_actions)
        /\ \A i \in 1..Len(calls) : calls[i].index = i

\* C7: in the step that marks the run done, every non-recall action of the
\* turn's batch, those after the Finish included, has already been
\* dispatched exactly once.
C7_BatchBeforeFinish ==
    [][(~done /\ done') => AllDispatchedOnce]_vars

\* C7 witness: the run is done on a batch <<Finish, Bash>> whose Bash, after
\* the Finish, was dispatched.
C7_Witness ==
    /\ done
    /\ pc = "save"
    /\ Len(actions) = 2
    /\ actions[1].type = "Finish" /\ actions[2].type = "Bash"
    /\ Len(calls) = 2 /\ calls[2].index = 2

\* C10 as claimed: between turns and after the loop, the durable turn log has
\* a record for every turn number from 1 to the recorded max_turn.
C10_DenseTurnLog ==
    pc \in {"loop", "exit", "returned", "raised"} =>
        \A n \in 1..meta_max_turn : n \in Dom(turns)

\* C11 as claimed: no turn record is stored under a number above the recorded
\* max_turn, so get_all_turns (which reads the turns 1..max_turn) returns every
\* stored turn.
C11_StoredWithinMaxTurn ==
    /\ \A n \in Dom(turns) : n <= meta_max_turn
    /\ Len(GetAllTurns(turns, meta_max_turn)) = Cardinality(Dom(turns))

\* ------------------------------------- SpecMem: direct calls of the turn log
\* save_turn for the turns 1, 2, ... in order, none failing, then one
\* get_turns_range(start, end) with any bounds around the stored numbers.
ActionNames == {<<>>, <<"Bash">>}
RangeArgs == (0 - 1)..(MaxSaved + 2)

InitMem ==
    /\ AtRest
    /\ ExtAtRest
    /\ pc = "m_ready"
    /\ actions = <<>>
    /\ action_results = <<>>
    /\ calls = <<>>
    /\ hist = NoHist

\* save_turn(turn_num, ...): the turn key, then _update_metadata
MemSaveTurn ==
    /\ pc = "m_ready"
    /\ Cardinality(Dom(turns)) < MaxSaved
    /\ \E names \in ActionNames :
          LET turn_num == Cardinality(Dom(turns)) + 1
          IN  /\ turns' = PutTurn(turns, [turn_num |-> turn_num, actions |-> names])
              /\ meta_max_turn' = Max(meta_max_turn, turn_num)
    /\ UNCHANGED <<pc, max_turns, current_turn, messages, done, finish_message,
                   turnLocals, exc, summaries, result, hist, extVars>>

\* get_turns_range(start, end)
MemGetTurnsRange ==
    /\ pc = "m_ready"
    /\ \E start \in RangeArgs, end \in RangeArgs :
          /\ args' = [start |-> start, end |-> end]
          /\ ret' = GetTurnsRange(turns, start, end)
    /\ pc' = "m_returned"
    /\ UNCHANGED <<max_turns, current_turn, messages, done, finish_message,
                   turnLocals, exc, storeVars, result, hist, redis, callers,
                   inflight>>

NextMem == MemSaveTurn \/ MemGetTurnsRange

SpecMem == InitMem /\ [][NextMem]_vars

\* C12: after save_turn for the turns 1..N, get_turns_range(a, b) returns
\* the stored records of exactly the turn numbers in [a,b] and [1,N], each
\* once, in ascending order of turn_num; nothing when a > b.
C12_RangeExact ==
    pc = "m_returned" =>
        LET N == Cardinality(Dom(turns))
            wanted == {n \in 1..N : args.start <= n /\ n <= args.end}
        IN  /\ Dom(turns) = 1..N
            /\ \A i \in 1..Len(ret) :
                  /\ ret[i].turn_num \in wanted
                  /\ ret[i] = turns[ret[i].turn_num]
            /\ \A n \in wanted :
                  Cardinality({i \in 1..Len(ret) : ret[i].turn_num = n}) = 1
            /\ \A i \in 1..Len(ret), j \in 1..Len(ret) :
                  i < j => ret[i].turn_num < ret[j].turn_num

\* C12 witness: a range that starts below 1 and ends above N returned all of
\* two or more stored turns.
C12_Witness ==
    /\ pc = "m_returned"
    /\ args.start < 1
    /\ args.end > Cardinality(Dom(turns))
    /\ Len(ret) = Cardinality(Dom(turns))
    /\ Len(ret) >= 2

\* ------------------------------------------------------ SpecLong: a long run
\* The completion service answers at once or fails for good; every reply is
\* one bash block; the sandbox and save_turn do not fail. The store of the
\* compaction step fails in every way it can.
LongScripts ==
    {[i \in 1..max_retries |-> "ok"], [i \in 1..max_retries |-> "fatal"]}

LongReplies == {<<[tag |-> "bash", valid |-> TRUE, arg |-> "a"]>>}

InitLong == InitRun({LongTurns})

NextLong ==
    \/ RunStart
    \/ LoopTest
    \/ ManageMemory(LongScripts)
    \/ CallLLM(LongScripts, LongReplies)
    \/ ParseTurn
    \/ Dispatch({"ok"})
    \/ FinishScan
    \/ SaveTurn({"ok"})
    \/ TurnExcept
    \/ ReturnResult({"ok"})

SpecLong == InitLong /\ [][NextLong]_vars

\* ConversationState after the compaction step of this turn is the system
\* message, the task message, one summary message and the 2 x MAX_ACTIVE_TURNS
\* most recent messages of before, and get_summary of the summary's range
\* returns its text, which is not empty.
CompactedNow ==
    /\ Len(messages) = 3 + MAX_ACTIVE_TURNS * 2
    /\ messages[1] = SystemMsg
    /\ messages[2] = TaskMsg
    /\ messages[3].kind = "summary"
    /\ SubSeq(messages, 4, Len(messages)) = LastN(hist.pre, MAX_ACTIVE_TURNS * 2)
    /\ \A i \in 4..Len(messages) : messages[i].kind # "summary"
    /\ GetSummary(summaries, <<messages[3].lo, messages[3].hi>>) = messages[3].text
    /\ messages[3].text # <<>>

\* C9 as claimed: whenever the compaction step has run on more than
\* 2 x MAX_ACTIVE_TURNS non-system messages, ConversationState is compacted.
C9_CompactsAboveThreshold ==
    (pc = "llm" /\ NonSystem(hist.pre) > MAX_ACTIVE_TURNS * 2) => CompactedNow

\* C9 amended: the compaction step compacts when more than
\* 2 x MAX_ACTIVE_TURNS + 1 non-system messages are held (at least one message
\* lies between the task message and the most recent 2 x MAX_ACTIVE_TURNS)
\* and its store calls do not raise; with 2 x MAX_ACTIVE_TURNS + 1 or fewer,
\* or when a store call of the step raises, ConversationState is unchanged.
C9_CompactsWhenMiddle ==
    /\ (pc = "llm" /\ NonSystem(hist.pre) > MAX_ACTIVE_TURNS * 2 + 1) => CompactedNow
    /\ (pc = "llm" /\ NonSystem(hist.pre) <= MAX_ACTIVE_TURNS * 2 + 1) =>
          messages = hist.pre
    /\ (pc = "except" /\ exc = "compaction") => messages = hist.pre

\* C9 witness: a state already compacted once has been compacted again.
C9_Witness ==
    /\ pc = "llm"
    /\ hist.compacted
    /\ hist.pre[3].kind = "summary"
    /\ messages[3].kind = "summary"
    /\ messages[3] # hist.pre[3]

\* ------------------------------------- SpecRerun: run() twice on one agent
\* The agent of SpecLong, whose run() is called a second time after the first
\* call returned: same task id, same store. Every completion call of a turn
\* answers at once; the summarizer's call answers or fails for good.
OkScripts == {[i \in 1..max_retries |-> "ok"]}

\* run() again, up to the loop: the counter and ConversationState are set
\* anew; done, finish_message and the store are what the first call left.
RunAgain ==
    /\ pc = "returned"
    /\ hist.runs = 1
    /\ pc' = "loop"
    /\ current_turn' = 0
    /\ messages' = <<SystemMsg, TaskMsg>>
    /\ hist' = [hist EXCEPT !.runs = 2]
    /\ UNCHANGED <<max_turns, done, finish_message, turnLocals, exc, storeVars,
                   result, extVars>>

NextRerun ==
    \/ RunStart
    \/ LoopTest
    \/ ManageMemory(LongScripts)
    \/ CallLLM(OkScripts, LongReplies)
    \/ ParseTurn
    \/ Dispatch({"ok"})
    \/ FinishScan
    \/ SaveTurn({"ok"})
    \/ TurnExcept
    \/ ReturnResult({"ok"})
    \/ RunAgain

SpecRerun == InitLong /\ [][NextRerun]_vars

\* C13 as claimed: summarize_turns is never invoked for a turn range whose
\* summary is already saved (the saved summary is used instead).
C13_SavedSummaryReused == ~hist.resummarized

\* =========================================================== the context store
\* The value under "context:<id>": nothing, the record that was there before
\* the calls began, or the data of the caller that wrote it.
Absent == 0
Preexisting == 0 - 1

\* A call of add_context in progress: where it is, whether its pipeline
\* connection watches the key and whether the key was modified since
\* (WATCH ... EXEC of the server), what it returned, and whether its EXEC was
\* ever refused.
NewCaller ==
    [pc |-> "exists", watching |-> FALSE, dirty |-> FALSE, ret |-> "pending",
     retried |-> FALSE]

\* The server marks every other connection watching a key that is written.
Touch(cs, writer) ==
    [c \in DOMAIN cs |->
        IF c # writer /\ cs[c].watching
        THEN [cs[c] EXCEPT !.dirty = TRUE]
        ELSE cs[c]]

\* ----------------------------- SpecCtx: concurrent add_context on one id
\* One to MaxCallers calls with the same context.id, each with its own
\* content; the key is absent or already there; the contexts carry a task_id
\* or not. No store call raises.
InitCtx ==
    /\ AtRest
    /\ pc = "c_calls"
    /\ actions = <<>>
    /\ action_results = <<>>
    /\ calls = <<>>
    /\ hist = NoHist
    /\ inflight = {}
    /\ ret = <<>>
    /\ \E n \in 1..MaxCallers : callers = [c \in 1..n |-> NewCaller]
    /\ \E existed \in BOOLEAN, task_id \in BOOLEAN :
          /\ args = [existed |-> existed, task_id |-> task_id]
          /\ redis = [context |-> IF existed THEN Preexisting ELSE Absent,
                      task_contexts |-> existed /\ task_id,
                      ttl |-> existed]

ctxFrame ==
    <<pc, max_turns, current_turn, messages, done, finish_message, turnLocals,
      exc, storeVars, result, hist, inflight, args, ret>>

\* exists = await self.redis.exists(key), before the pipeline (not used)
CtxExistsFirst(c) ==
    /\ callers[c].pc = "exists"
    /\ callers' = [callers EXCEPT ![c].pc = "watch"]
    /\ UNCHANGED <<redis, ctxFrame>>

\* await pipe.watch(key)
CtxWatch(c) ==
    /\ callers[c].pc = "watch"
    /\ callers' = [callers EXCEPT ![c].pc = "check",
                                  ![c].watching = TRUE,
                                  ![c].dirty = FALSE]
    /\ UNCHANGED <<redis, ctxFrame>>

\* exists = await pipe.exists(key); if exists: return False (leaving the
\* pipeline block resets the connection), else multi() and the queued hset
CtxCheck(c) ==
    /\ callers[c].pc = "check"
    /\ callers' = IF redis.context # Absent
                  THEN [callers EXCEPT ![c].pc = "done",
                                       ![c].ret = "false",
                                       ![c].watching = FALSE,
                                       ![c].dirty = FALSE]
                  ELSE [callers EXCEPT ![c].pc = "execute"]
    /\ UNCHANGED <<redis, ctxFrame>>

\* (mutant) the key is not watched: EXEC is never refused
CtxExecuteUnwatched(c) ==
    /\ callers[c].pc = "execute"
    /\ redis' = [redis EXCEPT !.context = c, !.ttl = FALSE]
    /\ callers' = [Touch(callers, c) EXCEPT
                        ![c].pc = IF args.task_id THEN "sadd" ELSE "expire",
                        ![c].watching = FALSE,
                        ![c].dirty = FALSE]
    /\ UNCHANGED ctxFrame

\* await pipe.execute(): WatchError when the key was modified since the
\* watch (continue: back to the watch), else the hset is applied
CtxExecute(c) ==
    /\ callers[c].pc = "execute"
    /\ IF callers[c].dirty
       THEN /\ callers' = [callers EXCEPT ![c].pc = "watch",
                                          ![c].watching = FALSE,
                                          ![c].dirty = FALSE,
                                          ![c].retried = TRUE]
            /\ UNCHANGED redis
       ELSE /\ redis' = [redis EXCEPT !.context = c, !.ttl = FALSE]
            /\ callers' = [Touch(callers, c) EXCEPT
                                ![c].pc = IF args.task_id THEN "sadd" ELSE "expire",
                                ![c].watching = FALSE,
                                ![c].dirty = FALSE]
    /\ UNCHANGED ctxFrame

\* await self.redis.sadd(task_key, context.id)
CtxSadd(c) ==
    /\ callers[c].pc = "sadd"
    /\ redis' = [redis EXCEPT !.task_contexts = TRUE]
    /\ callers' = [callers EXCEPT ![c].pc = "expire"]
    /\ UNCHANGED ctxFrame

\* await self.redis.expire(key, 604800); return True
CtxExpire(c) ==
    /\ callers[c].pc = "expire"
    /\ redis' = [redis EXCEPT !.ttl = TRUE]
    /\ callers' = [Touch(callers, c) EXCEPT ![c].pc = "done", ![c].ret = "true"]
    /\ UNCHANGED ctxFrame

NextCtx ==
    \/ \E c \in DOMAIN callers : CtxExistsFirst(c)
    \/ \E c \in DOMAIN callers : CtxWatch(c)
    \/ \E c \in DOMAIN callers : CtxCheck(c)
    \/ \E c \in DOMAIN callers : CtxExecute(c)
    \/ \E c \in DOMAIN callers : CtxSadd(c)
    \/ \E c \in DOMAIN callers : CtxExpire(c)

SpecCtx == InitCtx /\ [][NextCtx]_vars

Returned(v) == {c \in DOMAIN callers : callers[c].ret = v}
AllReturned == \A c \in DOMAIN callers : callers[c].pc = "done"

\* C14: among concurrent add_context calls with one context id, never more
\* than one returns True; the stored record is the data of the call that
\* returned True; and once all have returned on a key that was absent,
\* exactly one returned True and all others False (on a key that was there,
\* all returned False and the record is untouched).
C14_ExactlyOneAdds ==
    /\ Cardinality(Returned("true")) <= 1
    /\ \A c \in Returned("true") : redis.context = c
    /\ AllReturned =>
          /\ Returned("true") \cup Returned("false") = DOMAIN callers
          /\ IF args.existed
             THEN Returned("true") = {} /\ redis.context = Preexisting
             ELSE Cardinality(Returned("true")) = 1

\* C14 witness: three calls raced for an absent key, one returned True, and a
\* call whose EXEC was refused returned False.
C14_Witness ==
    /\ AllReturned
    /\ ~args.existed
    /\ Cardinality(DOMAIN callers) >= 3
    /\ Cardinality(Returned("true")) = 1
    /\ \E c \in Returned("false") : callers[c].retried

\* ============================================================== the task store
\* A call of create_task in progress: where it is and what it returned.
NewCreate == [pc |-> "set", ret |-> "pending"]

\* ------------------------------ SpecTask: create_task calls with one task_id
\* One to MaxCallers calls of create_task with the same task_id and their own
\* title and description, interleaved at their awaits in every way (one after
\* the other included). No store call raises.
InitTask ==
    /\ AtRest
    /\ pc = "t_calls"
    /\ actions = <<>>
    /\ action_results = <<>>
    /\ calls = <<>>
    /\ hist = NoHist
    /\ inflight = {}
    /\ args = <<>>
    /\ ret = <<>>
    /\ \E n \in 1..MaxCallers : callers = [c \in 1..n |-> NewCreate]
    /\ redis = [task |-> Absent, pending |-> {}, ttl |-> FALSE]

\* await self.redis.set(key, task.model_dump_json())
TaskSet(c) ==
    /\ callers[c].pc = "set"
    /\ redis' = [redis EXCEPT !.task = c, !.ttl = FALSE]
    /\ callers' = [callers EXCEPT ![c].pc = "sadd"]
    /\ UNCHANGED ctxFrame

\* await self.redis.sadd("tasks:pending", task_id)
TaskSadd(c) ==
    /\ callers[c].pc = "sadd"
    /\ redis' = [redis EXCEPT !.pending = {"task_id"}]
    /\ callers' = [callers EXCEPT ![c].pc = "expire"]
    /\ UNCHANGED ctxFrame

\* await self.redis.expire(key, 2592000); return task
TaskExpire(c) ==
    /\ callers[c].pc = "expire"
    /\ redis' = [redis EXCEPT !.ttl = TRUE]
    /\ callers' = [callers EXCEPT ![c].pc = "done", ![c].ret = "task"]
    /\ UNCHANGED ctxFrame

NextTask ==
    \/ \E c \in DOMAIN callers : TaskSet(c)
    \/ \E c \in DOMAIN callers : TaskSadd(c)
    \/ \E c \in DOMAIN callers : TaskExpire(c)

SpecTask == InitTask /\ [][NextTask]_vars

\* C15 as claimed: of the create_task calls with one task_id at most one
\* returns a task, and a task record once written is never overwritten.
C15_CreateIfAbsent ==
    /\ [](Cardinality(Returned("task")) <= 1)
    /\ [][redis.task # Absent => redis'.task = redis.task]_vars

\* ---------------------------------------- SpecParse: parse(llm_output) alone
\* The matched blocks of an input text: tags in either case, known or not,
\* bodies that validate as the class's fields or not, two payloads.
ParseTags == {"bash", "BASH", "write", "finish", "think"}
ParseBlocks == [tag : ParseTags, valid : BOOLEAN, arg : {"a", "b"}]

InitParse ==
    /\ ExtAtRest
    /\ pc = "p_ready"
    /\ max_turns = 0
    /\ current_turn = 0
    /\ messages = <<>>
    /\ done = FALSE
    /\ finish_message = NoMessage
    /\ llm_output \in SeqsUpTo(ParseBlocks, MaxBlocks)
    /\ actions = <<>>
    /\ parse_errors = <<>>
    /\ action_results = <<>>
    /\ calls = <<>>
    /\ exc = "none"
    /\ turns = <<>>
    /\ meta_max_turn = 0
    /\ summaries = <<>>
    /\ result = NoResult
    /\ hist = NoHist

\* actions, errors = parse(llm_output)
ParseCall ==
    /\ pc = "p_ready"
    /\ LET p == Parse(llm_output)
       IN  /\ actions' = p.actions
           /\ parse_errors' = p.errors
    /\ pc' = "p_done"
    /\ UNCHANGED <<max_turns, current_turn, messages, done, finish_message,
                   llm_output, action_results, calls, exc, storeVars, result,
                   hist, extVars>>

NextParse == ParseCall

SpecParse == InitParse /\ [][NextParse]_vars

\* The blocks of the input whose tag has a class, and of those the ones whose
\* body gives an action.
Known(b) == TagClass(Lower(b.tag)) # "none"
Yields(b) == Known(b) /\ (TagClass(Lower(b.tag)) = "Finish" \/ b.valid)
Fails(b) == Known(b) /\ ~Yields(b)

\* C16: parse returns for every input, with one action for each known-tag
\* block whose body gives an action and one error, naming the tag, for each
\* known-tag block whose body does not (later blocks are still parsed);
\* unknown tags give neither; no blocks give ([], []).
C16_ParseTotal ==
    /\ pc = "p_ready" => ENABLED ParseCall
    /\ pc = "p_done" =>
          /\ exc = "none"
          /\ Len(actions) = Len(SelectSeq(llm_output, Yields))
          /\ Len(parse_errors) = Len(SelectSeq(llm_output, Fails))
          /\ \A i \in 1..Len(parse_errors) :
                parse_errors[i] = Lower(SelectSeq(llm_output, Fails)[i].tag)
          /\ Len(actions) + Len(parse_errors) = Len(SelectSeq(llm_output, Known))
          /\ llm_output = <<>> => actions = <<>> /\ parse_errors = <<>>

\* C16 witness: a block that fails came before a block that gives an action,
\* and both are in the output.
C16_Witness ==
    /\ pc = "p_done"
    /\ Len(llm_output) >= 2
    /\ Fails(llm_output[1])
    /\ Yields(llm_output[2])
    /\ Len(actions) = 1
    /\ Len(parse_errors) = 1

\* C17: the actions parse returns are, in the document order of their
\* blocks, the actions of the blocks that give one.
C17_DocumentOrder ==
    pc = "p_done" =>
        LET sel == SelectSeq(llm_output, Yields)
        IN  actions = [i \in 1..Len(sel) |->
                          [type |-> TagClass(Lower(sel[i].tag)), arg |-> sel[i].arg]]

\* C17 witness: two blocks gave two different actions.
C17_Witness ==
    /\ pc = "p_done"
    /\ Len(llm_output) = 2
    /\ Len(actions) = 2
    /\ actions[1] # actions[2]
    /\ actions[1].arg = llm_output[1].arg
    /\ actions[1].type = TagClass(Lower(llm_output[1].tag))

\* ================================== _parse_params: the literal block (key: |)
\* A text is the sequence of its lines (text.split("\n"), never empty); a
\* line is the sequence of its characters.
IsBlank(line) == \A i \in 1..Len(line) : line[i] = " "

\* len(line) - len(line.lstrip())
Indent(line) ==
    IF IsBlank(line)
    THEN Len(line)
    ELSE CHOOSE n \in 0..(Len(line) - 1) :
            /\ line[n + 1] # " "
            /\ \A i \in 1..n : line[i] = " "

\* line[n:]
Drop(line, n) == SubSeq(line, n + 1, Len(line))

LStrip(line) == Drop(line, Indent(line))

RStrip(line) ==
    IF IsBlank(line)
    THEN <<>>
    ELSE SubSeq(line, 1, CHOOSE n \in 1..Len(line) :
                            /\ line[n] # " "
                            /\ \A i \in (n + 1)..Len(line) : line[i] = " ")

\* next_line and not next_line[0].isspace() and ': ' in next_line
StartsKey(line) ==
    /\ line # <<>>
    /\ line[1] # " "
    /\ \E i \in 1..(Len(line) - 1) : line[i] = ":" /\ line[i + 1] = " "

\* (mutant) every content line is lstrip()ped: deeper indentation is lost
RECURSIVE PipeFromLstrip(_, _, _, _)
PipeFromLstrip(lines, i, base, acc) ==
    IF i > Len(lines) \/ StartsKey(lines[i])
    THEN acc
    ELSE LET b == IF base = 0 - 1 /\ ~IsBlank(lines[i])
                  THEN Indent(lines[i]) ELSE base
         IN  PipeFromLstrip(lines, i + 1, b,
                IF b = 0 - 1 THEN acc ELSE Append(acc, LStrip(lines[i])))

\* The inner loop of the pipe case over the lines after the key line: base
\* is base_indent (-1: None), acc is content_lines.
RECURSIVE PipeFrom(_, _, _, _)
PipeFrom(lines, i, base, acc) ==
    IF i > Len(lines) \/ StartsKey(lines[i])
    THEN acc
    ELSE LET b == IF base = 0 - 1 /\ ~IsBlank(lines[i])
                  THEN Indent(lines[i]) ELSE base
         IN  PipeFrom(lines, i + 1, b,
                IF b = 0 - 1
                THEN acc
                ELSE Append(acc, IF Len(lines[i]) >= b
                                 THEN Drop(lines[i], b)
                                 ELSE LStrip(lines[i])))

\* "\n".join(content_lines).rstrip(), as a text
RECURSIVE JoinRStrip(_)
JoinRStrip(content_lines) ==
    IF content_lines = <<>>
    THEN << <<>> >>
    ELSE LET n == Len(content_lines)
         IN  IF IsBlank(content_lines[n])
             THEN JoinRStrip(SubSeq(content_lines, 1, n - 1))
             ELSE Append(SubSeq(content_lines, 1, n - 1), RStrip(content_lines[n]))

\* params[key] of a block "key: |" followed by the given lines
ParsePipe(lines) == JoinRStrip(PipeFrom(lines, 1, 0 - 1, <<>>))

\* The writer's side: the value's lines, each behind the same indent spaces
\* (the lines that follow "key: |").
Spaces(n) == [i \in 1..n |-> " "]
Serialize(value, indent) == [i \in 1..Len(value) |-> Spaces(indent) \o value[i]]

\* value.strip(), as a predicate: the text neither begins nor ends with
\* white space (a blank first or last line is white space too)
Stripped(value) ==
    \/ value = << <<>> >>
    \/ /\ value[1] # <<>>
       /\ value[1][1] # " "
       /\ value[Len(value)] # <<>>
       /\ value[Len(value)][Len(value[Len(value)])] # " "

\* ------------------------------- SpecPipe: a literal block written and parsed
PipeChars == {" ", "x"}
PipeLines == SeqsUpTo(PipeChars, MaxLineLen)
PipeValues == UNION {[1..n -> PipeLines] : n \in 1..MaxLines}
PipeIndents == {1, 2}

InitPipe ==
    /\ AtRest
    /\ pc = "l_ready"
    /\ actions = <<>>
    /\ action_results = <<>>
    /\ calls = <<>>
    /\ hist = NoHist
    /\ redis = <<>>
    /\ callers = <<>>
    /\ inflight = {}
    /\ \E value \in PipeValues, indent \in PipeIndents :
          args = [value |-> value, indent |-> indent]
    /\ ret = <<>>

\* _parse_params("content: |\n" + the serialized value)
ParseParamsCall ==
    /\ pc = "l_ready"
    /\ ret' = [content |-> ParsePipe(Serialize(args.value, args.indent))]
    /\ pc' = "l_done"
    /\ UNCHANGED <<max_turns, current_turn, messages, done, finish_message,
                   turnLocals, exc, storeVars, result, hist, redis, callers,
                   inflight, args>>

NextPipe == ParseParamsCall

SpecPipe == InitPipe /\ [][NextPipe]_vars

\* C18 as claimed: every value written as a literal block parses back to
\* itself.
C18_RoundTripAll == pc = "l_done" => ret.content = args.value

\* C18 amended: a value written as a literal block parses back to itself
\* exactly when it neither begins nor ends with white space (embedded blank
\* lines and lines indented deeper than the first are kept); any other value
\* parses to a different one, and what parse returns always round-trips.
C18_RoundTripStripped ==
    pc = "l_done" =>
        /\ (ret.content = args.value) <=> Stripped(args.value)
        /\ Stripped(ret.content)
        /\ ParsePipe(Serialize(ret.content, args.indent)) = ret.content

\* C18 witness: a value with an embedded blank line and a line indented
\* deeper than the first came back unchanged.
C18_Witness ==
    /\ pc = "l_done"
    /\ Len(args.value) = 3
    /\ args.value[2] = <<>>
    /\ Len(args.value[3]) = 2
    /\ args.value[3][1] = " "
    /\ args.value[3][2] # " "
    /\ ret.content = args.value

\* ------------------------------ SpecFlight: the awaits of a run, one by one
\* run() at the grain of its awaits on the completion service and on the
\* sandbox: a call is in inflight from the moment it is made until its await
\* returns. Whether the window is over the compaction threshold is left open
\* here (ManageMemory has the condition); store calls are not tracked.
FlightBlocks ==
    {[tag |-> "bash", valid |-> TRUE, arg |-> "a"],
     [tag |-> "finish", valid |-> TRUE, arg |-> "done"]}
FlightReplies == SeqsUpTo(FlightBlocks, MaxBlocks)

Op(kind, index) == [kind |-> kind, turn |-> current_turn, index |-> index]

InitFlight ==
    /\ pc = "f_loop"
    /\ max_turns = MaxTurns
    /\ current_turn = 0
    /\ messages = <<>>
    /\ done = FALSE
    /\ finish_message = NoMessage
    /\ llm_output = <<>>
    /\ actions = <<>>
    /\ parse_errors = <<>>
    /\ action_results = <<>>
    /\ calls = <<>>
    /\ exc = "none"
    /\ turns = <<>>
    /\ meta_max_turn = 0
    /\ summaries = <<>>
    /\ result = NoResult
    /\ hist = NoHist
    /\ redis = <<>>
    /\ callers = <<>>
    /\ inflight = {}
    /\ args = [attempt |-> 0, purpose |-> "turn"]
    /\ ret = <<>>

flightFrame ==
    <<max_turns, messages, finish_message, llm_output, parse_errors, exc,
      storeVars, result, hist, redis, callers, ret>>

\* while not self.done and self.current_turn < max_turns
FlightLoop ==
    /\ pc = "f_loop"
    /\ IF ~done /\ current_turn < max_turns
       THEN /\ current_turn' = current_turn + 1
            /\ pc' = "f_manage"
            /\ actions' = <<>>
            /\ action_results' = <<>>
            /\ calls' = <<>>
       ELSE /\ pc' = "f_exit"
            /\ UNCHANGED <<current_turn, actions, action_results, calls>>
    /\ UNCHANGED <<done, inflight, args, flightFrame>>

\* await self._manage_memory(): over the threshold, summarize_turns makes a
\* completion call of its own before the turn's call
FlightManage ==
    /\ pc = "f_manage"
    /\ \E over \in BOOLEAN :
          args' = [attempt |-> 0,
                   purpose |-> IF over THEN "summary" ELSE "turn"]
    /\ pc' = "f_llm"
    /\ UNCHANGED <<current_turn, done, actions, action_results, calls,
                   inflight, flightFrame>>

\* response = await acompletion(...): the call is made
FlightLLMStart ==
    /\ pc = "f_llm"
    /\ inflight' = inflight \cup {Op("completion", args.attempt)}
    /\ pc' = "f_llm_wait"
    /\ UNCHANGED <<current_turn, done, actions, action_results, calls, args,
                   flightFrame>>

\* ... and its await returns: the content, a transient error (sleep, next
\* attempt) or an error that leaves get_completion. _llm_summary falls back
\* on the simple summary; the turn's call raises into the turn's except.
FlightLLMReturn ==
    /\ pc = "f_llm_wait"
    /\ inflight' = inflight \ {Op("completion", args.attempt)}
    /\ \E out \in AttemptOutcomes :
          CASE out = "transient" /\ args.attempt < max_retries - 1 ->
                  /\ args' = [args EXCEPT !.attempt = @ + 1]
                  /\ pc' = "f_llm"
                  /\ UNCHANGED actions
            [] args.purpose = "summary" ->
                  /\ args' = [attempt |-> 0, purpose |-> "turn"]
                  /\ pc' = "f_llm"
                  /\ UNCHANGED actions
            [] out = "ok" ->
                  /\ \E reply \in FlightReplies : actions' = Parse(reply).actions
                  /\ pc' = "f_dispatch"
                  /\ UNCHANGED args
            [] OTHER ->
                  /\ pc' = "f_loop"
                  /\ UNCHANGED <<actions, args>>
    /\ UNCHANGED <<current_turn, done, action_results, calls, flightFrame>>

\* (mutant) asyncio.gather over the batch: an action starts without waiting
\* for the one before it
FlightActionStartGather ==
    /\ pc \in {"f_dispatch", "f_action_wait"}
    /\ Len(calls) < Len(actions)
    /\ LET i == Len(calls) + 1
       IN  /\ calls' = Append(calls, i)
           /\ IF actions[i].type = "Finish"
              THEN /\ action_results' =
                         Append(action_results, [index |-> i, status |-> "ok"])
                   /\ UNCHANGED <<pc, inflight>>
              ELSE /\ inflight' = inflight \cup {Op("sandbox", i)}
                   /\ pc' = "f_action_wait"
                   /\ UNCHANGED action_results
    /\ UNCHANGED <<current_turn, done, actions, args, flightFrame>>

\* execute(): result = await self._execute_single(action) for the next
\* action of the batch; _handle_finish returns without an external call,
\* _handle_bash awaits the sandbox
FlightActionStart ==
    /\ pc = "f_dispatch"
    /\ Len(calls) < Len(actions)
    /\ LET i == Len(calls) + 1
       IN  /\ calls' = Append(calls, i)
           /\ IF actions[i].type = "Finish"
              THEN /\ action_results' =
                         Append(action_results, [index |-> i, status |-> "ok"])
                   /\ UNCHANGED <<pc, inflight>>
              ELSE /\ inflight' = inflight \cup {Op("sandbox", i)}
                   /\ pc' = "f_action_wait"
                   /\ UNCHANGED action_results
    /\ UNCHANGED <<current_turn, done, actions, args, flightFrame>>

\* the sandbox call returns (exit 0, non-zero, or the timeout result) and its
\* result is appended
FlightActionReturn ==
    /\ pc = "f_action_wait"
    /\ \E op \in inflight, status \in {"ok", "failed"} :
          /\ op.kind = "sandbox"
          /\ inflight' = inflight \ {op}
          /\ action_results' =
                Append(action_results, [index |-> op.index, status |-> status])
    /\ pc' = "f_dispatch"
    /\ UNCHANGED <<current_turn, done, actions, calls, args, flightFrame>>

\* execute() has returned: the Finish scan, and on to the next turn
FlightBatchEnd ==
    /\ pc = "f_dispatch"
    /\ Len(calls) = Len(actions)
    /\ done' = (FirstFinish(actions) # 0)
    /\ pc' = "f_loop"
    /\ UNCHANGED <<current_turn, actions, action_results, calls, inflight,
                   args, flightFrame>>

NextFlight ==
    \/ FlightLoop
    \/ FlightManage
    \/ FlightLLMStart
    \/ FlightLLMReturn
    \/ FlightActionStart
    \/ FlightActionReturn
    \/ FlightBatchEnd

SpecFlight == InitFlight /\ [][NextFlight]_vars

\* C19: at most one completion call or sandbox command of the run is
\* outstanding at any instant, and an action of a batch starts only when
\* nothing is outstanding and every action before it has returned its
\* result, in input order.
C19_OneInFlight ==
    /\ [](Cardinality(inflight) <= 1)
    /\ [][Len(calls') = Len(calls) + 1 =>
            /\ inflight = {}
            /\ Len(action_results) = Len(calls)
            /\ calls'[Len(calls')] = Len(calls) + 1
            /\ \A j \in 1..Len(action_results) : action_results[j].index = j]_vars

\* C19 witness: the second sandbox command of a batch is outstanding, alone,
\* after the first has returned.
C19_Witness ==
    /\ pc = "f_action_wait"
    /\ Len(calls) = 2
    /\ Len(action_results) = 1
    /\ action_results[1].index = 1
    /\ inflight = {Op("sandbox", 2)}
    /\ actions[1].type = "Bash"

\* ------------------------------- SpecSandbox: a run whose commands time out
\* A short run whose replies are one to MaxBlocks bash blocks; each command
\* exits with 0 or another status, times out, or cannot be started. The
\* turn's completion call answers at once or fails for good; the store does
\* not fail.
SandboxReplies ==
    SeqsUpTo({[tag |-> "bash", valid |-> TRUE, arg |-> "a"]}, MaxBlocks) \ {<<>>}

InitSandbox == InitRun({MaxTurns})

NextSandbox ==
    \/ RunStart
    \/ LoopTest
    \/ ManageMemory(OkScripts)
    \/ CallLLM(LongScripts, SandboxReplies)
    \/ ParseTurn
    \/ Dispatch(SandboxOutcomes)
    \/ FinishScan
    \/ SaveTurn({"ok"})
    \/ TurnExcept
    \/ ReturnResult({"ok"})

SpecSandbox == InitSandbox /\ [][NextSandbox]_vars

TimedOut(i) == i \in 1..Len(calls) /\ calls[i].timeout

\* C20: a command that exceeds its timeout is killed and gives the result
\* (message, 124) without raising; the dispatcher reports it as a failed
\* action, every action of the batch is still executed and gets its result,
\* and the turn goes on to its end without an exception, the run not done.
C20_TimeoutIsFailedResult ==
    (\E i \in 1..Len(calls) : TimedOut(i)) =>
        /\ pc \in {"scan", "save", "loop", "exit", "returned"}
        /\ exc = "none"
        /\ ~done
        /\ Len(action_results) = Len(actions)
        /\ Len(calls) = Len(actions)
        /\ \A i \in 1..Len(calls) :
              /\ calls[i].index = i
              /\ ~calls[i].raised
              /\ TimedOut(i) =>
                    /\ calls[i].process = "killed"
                    /\ action_results[i].status = "failed"
                    /\ action_results[i].code = 124
              /\ ~TimedOut(i) => action_results[i].code # 124
        /\ (pc = "loop" /\ current_turn < max_turns) => ENABLED LoopTest

\* C20 witness: the first command of a batch timed out, the one after it ran
\* and succeeded, and the run is at the head of the loop with turns left.
C20_Witness ==
    /\ pc = "loop"
    /\ current_turn < max_turns
    /\ Len(calls) = 2
    /\ TimedOut(1)
    /\ action_results[1].code = 124
    /\ action_results[2].status = "ok"

\* ======================================== _handle_write: the Write handler
\* The variables of a run, which the direct calls below leave alone.
runVars == <<max_turns, current_turn, messages, done, finish_message,
             llm_output, actions, parse_errors, action_results, calls, exc,
             turns, meta_max_turn, summaries, result, hist>>

RunAtRest ==
    /\ AtRest
    /\ actions = <<>>
    /\ action_results = <<>>
    /\ calls = <<>>
    /\ hist = NoHist

\* What the target path holds when the handler looks at it: nothing, an
\* empty file, a file whose text reads back different from the requested
\* content, or a file whose text reads back equal to it.
DiskStates == {"absent", "empty", "other", "same"}

\* What the file system and the executor do to one Write: the direct write
\* raises (makedirs, open, write, getsize or the read back) or leaves the
\* path in a state; creating the temporary file raises or not; the mv command
\* exits 0, exits non-zero, or the executor raises; the state of the path
\* after the mv.
WriteEnvs == [primary : DiskStates \cup {"raise"},
              tmp : {"ok", "raise"},
              mv : {"ok", "nonzero", "raise"},
              after : DiskStates]

WriteResult(status, text, fallbacks, raised, disk) ==
    [status |-> status, text |-> text, fallbacks |-> fallbacks,
     raised |-> raised, disk |-> disk]

\* The except branch: the temporary file and the mv command, then
\* `test -f path && wc -c path`, which exits 0 whenever the path is a file.
\* When creating the temporary file raised, temp_path is unbound and the
\* finally clause raises in place of the return.
WriteFallback(env) ==
    IF env.tmp = "raise"
    THEN WriteResult("raised", "UnboundLocalError", 1, TRUE, env.primary)
    ELSE IF env.mv = "raise"
    THEN WriteResult("failed", "All write methods failed", 1, FALSE, env.primary)
    ELSE IF env.mv = "nonzero"
    THEN WriteResult("failed", "Failed to write file", 1, FALSE, env.primary)
    ELSE IF env.after = "absent"
    THEN WriteResult("verify_failed", "File written but verification failed",
                     1, FALSE, env.after)
    ELSE WriteResult("success", "File written (via bash)", 1, FALSE, env.after)

\* _handle_write(action): content is the sequence of the characters of
\* action.content.
HandleWrite(content, env) ==
    IF IsBlank(content)
    THEN WriteResult("failed", "Write failed: content is empty", 0, FALSE, "absent")
    ELSE IF env.primary \in {"raise", "absent", "empty"}
    THEN WriteFallback([env EXCEPT !.primary = IF @ = "raise" THEN "absent" ELSE @])
    ELSE \* a content mismatch is logged and nothing else
         WriteResult("success", "File written", 0, FALSE, env.primary)

WriteContents == SeqsUpTo({" ", "x"}, 2)

InitWrite ==
    /\ RunAtRest
    /\ redis = <<>>
    /\ callers = <<>>
    /\ inflight = {}
    /\ pc = "w_ready"
    /\ args \in [content : WriteContents, env : WriteEnvs]
    /\ ret = <<>>

WriteCall ==
    /\ pc = "w_ready"
    /\ ret' = HandleWrite(args.content, args.env)
    /\ pc' = "w_done"
    /\ UNCHANGED <<runVars, redis, callers, inflight, args>>

NextWrite == WriteCall

SpecWrite == InitWrite /\ [][NextWrite]_vars

\* C21: a Write of non-empty content reports success only when the file
\* exists, is non-empty and reads back equal to the requested content; when
\* the direct write raises or any of those three checks fails, the fallback
\* path is taken, once; and when the file is still not as requested the
\* result is the verification error, not success and not an exception.
C21_WriteVerified ==
    (pc = "w_done" /\ ~IsBlank(args.content)) =>
        /\ ret.fallbacks <= 1
        /\ ~ret.raised
        /\ ret.status = "success" => ret.disk = "same"
        /\ args.env.primary # "same" => ret.fallbacks = 1
        /\ (ret.fallbacks = 1 /\ args.env.mv = "ok" /\ ret.disk # "same")
              => ret.status = "verify_failed"

\* ------------------------------- SpecRetry: get_completion(messages) alone
\* A client constructed with max_retries = args.retries, and what the
\* service does on each attempt the call may make.
InitRetry ==
    /\ RunAtRest
    /\ redis = <<>>
    /\ callers = <<>>
    /\ inflight = {}
    /\ pc = "g_ready"
    /\ \E n \in 0..MaxRetries :
          args \in [retries : {n}, script : [1..n -> AttemptOutcomes]]
    /\ ret = <<>>

GetCompletionCall ==
    /\ pc = "g_ready"
    /\ ret' = GetCompletion(args.retries, args.script)
    /\ pc' = "g_done"
    /\ UNCHANGED <<runVars, redis, callers, inflight, args>>

NextRetry == GetCompletionCall

SpecRetry == InitRetry /\ [][NextRetry]_vars

\* the attempts of the script that end the call: a success, a fatal error, or
\* the last attempt
Ends(script, i) == script[i] # "transient" \/ i = Len(script)

\* C22: get_completion makes at most max_retries attempts; it sleeps only
\* between attempts, min(2^i, 60) seconds after the failure of attempt i
\* (counted from 0); it returns at the first attempt that succeeds; and when
\* the last attempt fails it raises without sleeping again.
C22_BoundedBackoff ==
    pc = "g_done" =>
        LET n == args.retries
            s == args.script
        IN  /\ ret.attempts <= n
            /\ n >= 1 =>
                  /\ ret.attempts >= 1
                  /\ Ends(s, ret.attempts)
                  /\ \A i \in 1..(ret.attempts - 1) : ~Ends(s, i)
                  /\ Len(ret.waits) = ret.attempts - 1
                  /\ \A i \in 1..Len(ret.waits) :
                        ret.waits[i] = Min(Pow2(i - 1), 60)
                  /\ ret.status = "ok" <=> s[ret.attempts] = "ok"
                  /\ ret.status = "raise" <=> s[ret.attempts] # "ok"
                  /\ (ret.attempts = n /\ s[n] = "transient") =>
                        ret.error = "exhausted"

\* C22 witness: every attempt failed transiently, the wait reached its
\* ceiling, and the call raised after the last attempt.
C22_Witness ==
    /\ pc = "g_done"
    /\ args.retries >= 2
    /\ ret.status = "raise"
    /\ ret.error = "exhausted"
    /\ ret.attempts = args.retries
    /\ ret.waits[Len(ret.waits)] = 60

\* ------------------------------------------------- the recall block (Spec)
IsRecallBlock(b) == Lower(b.tag) = "recall"

\* C23: every <recall> block of a turn's reply is parsed into a Recall
\* action, which the orchestrator answers itself from the turn store and
\* never hands to the dispatcher; its text is part of the turn's results.
C23_RecallHandledLocally ==
    pc \in {"dispatch", "finish", "save"} =>
        /\ Len(SelectSeq(actions, IsRecall)) = Len(SelectSeq(llm_output, IsRecallBlock))
        /\ \A i \in 1..Len(calls) : SelectSeq(actions, IsOther)[calls[i].index].type # "Recall"

\* ------------------------------ SpecSearch: search_memory(query, limit) alone
\* A text is the sequence of its characters.
LowerChar(c) == CASE c = "A" -> "a" [] c = "B" -> "b" [] OTHER -> c

\* str.lower()
LowerText(s) == [i \in 1..Len(s) |-> LowerChar(s[i])]

\* needle in hay
Contains(hay, needle) ==
    \E i \in 0..(Len(hay) - Len(needle)) :
        SubSeq(hay, i + 1, i + Len(needle)) = needle

\* " ".join(names)
RECURSIVE JoinSpace(_)
JoinSpace(names) ==
    IF names = <<>> THEN <<>>
    ELSE IF Len(names) = 1 THEN names[1]
    ELSE names[1] \o <<" ">> \o JoinSpace(Tail(names))

\* the text search_memory looks in
SearchContent(turn) ==
    LowerText(turn.user) \o <<" ">> \o LowerText(turn.assistant) \o <<" ">>
    \o LowerText(JoinSpace(turn.actions))

\* the for loop over all_turns from position i: the limit is tested after the
\* append, on every iteration
RECURSIVE SearchFrom(_, _, _, _, _)
SearchFrom(all_turns, i, query_lower, limit, results) ==
    IF i > Len(all_turns)
    THEN results
    ELSE LET r == IF Contains(SearchContent(all_turns[i]), query_lower)
                  THEN Append(results, all_turns[i])
                  ELSE results
         IN  IF Len(r) >= limit
             THEN r
             ELSE SearchFrom(all_turns, i + 1, query_lower, limit, r)

\* search_memory
SearchMemory(store, maxTurn, query, limit) ==
    SearchFrom(GetAllTurns(store, maxTurn), 1, LowerText(query), limit, <<>>)

\* What a stored turn holds: the query letter in the user text, in the
\* assistant text in upper case, in an action name, text whose letters are
\* in different fields, or nothing.
SearchTexts ==
    {[user |-> <<"a">>, assistant |-> <<>>, actions |-> <<>>],
     [user |-> <<>>, assistant |-> <<"B">>, actions |-> <<>>],
     [user |-> <<>>, assistant |-> <<>>, actions |-> << <<"B">> >>],
     [user |-> <<"a">>, assistant |-> <<"b">>, actions |-> <<>>],
     [user |-> <<>>, assistant |-> <<>>, actions |-> <<>>]}

SearchQueries == {<<>>, <<"a">>, <<"A">>, <<"b">>, <<"a", " ", "b">>}
SearchLimits == 0..(MaxSaved + 1)

TurnOf(n, t) ==
    [turn_num |-> n, user |-> t.user, assistant |-> t.assistant,
     actions |-> t.actions]

\* The store after save_turn for some of the turns 1..MaxSaved (a turn that
\* failed is not stored).
InitSearch ==
    /\ max_turns = 0
    /\ current_turn = 0
    /\ messages = <<>>
    /\ done = FALSE
    /\ finish_message = NoMessage
    /\ llm_output = <<>>
    /\ parse_errors = <<>>
    /\ exc = "none"
    /\ summaries = <<>>
    /\ result = NoResult
    /\ actions = <<>>
    /\ action_results = <<>>
    /\ calls = <<>>
    /\ hist = NoHist
    /\ redis = <<>>
    /\ callers = <<>>
    /\ inflight = {}
    /\ pc = "s_ready"
    /\ \E D \in SUBSET (1..MaxSaved) :
          /\ \E f \in [D -> SearchTexts] :
                turns = [n \in D |-> TurnOf(n, f[n])]
          /\ meta_max_turn = IF D = {} THEN 0 ELSE CHOOSE n \in D : \A m \in D : m <= n
    /\ args \in [query : SearchQueries, limit : SearchLimits]
    /\ ret = <<>>

SearchCall ==
    /\ pc = "s_ready"
    /\ ret' = SearchMemory(turns, meta_max_turn, args.query, args.limit)
    /\ pc' = "s_done"
    /\ UNCHANGED <<runVars, redis, callers, inflight, args>>

NextSearch == SearchCall

SpecSearch == InitSearch /\ [][NextSearch]_vars

Matches(turn) == Contains(SearchContent(turn), LowerText(args.query))

\* C24: search_memory returns at most limit turns; they are, in ascending
\* turn number, the first stored turns whose text contains the query
\* whatever the case of either.
C24_SearchBounded ==
    pc = "s_done" =>
        LET found == SelectSeq(GetAllTurns(turns, meta_max_turn), Matches)
        IN  /\ Len(ret) <= args.limit
            /\ ret = SubSeq(found, 1, Min(args.limit, Len(found)))
            /\ \A i \in 1..(Len(ret) - 1) : ret[i].turn_num < ret[i + 1].turn_num

\* ================================= _handle_grep and _handle_glob: the echo
\* (mutant) the cap is tested with >=: an output of exactly cap lines gets a
\* note of 0 more
CappedAtCap(lines, cap) ==
    IF Len(lines) >= cap
    THEN [echoed |-> SubSeq(lines, 1, cap), noted |-> TRUE,
          more |-> Len(lines) - cap]
    ELSE [echoed |-> lines, noted |-> FALSE, more |-> 0]

\* if count > cap: output = "\n".join(lines[:cap]) + "\n... (count - cap more)"
Capped(lines, cap) ==
    IF Len(lines) > cap
    THEN [echoed |-> SubSeq(lines, 1, cap), noted |-> TRUE,
          more |-> Len(lines) - cap]
    ELSE [echoed |-> lines, noted |-> FALSE, more |-> 0]

NoEcho == [echoed |-> <<>>, noted |-> FALSE, more |-> 0]

\* _handle_grep: lines is output.splitlines()
HandleGrep(lines, exit_code) ==
    IF exit_code = 0
    THEN [text |-> "Found matches", total |-> Len(lines),
          echo |-> Capped(lines, GREP_CAP)]
    ELSE IF exit_code = 1
    THEN [text |-> "No matches found", total |-> 0, echo |-> NoEcho]
    ELSE [text |-> "Search failed", total |-> 0, echo |-> NoEcho]

\* _handle_glob
HandleGlob(lines, exit_code) ==
    IF exit_code = 0
    THEN [text |-> "Found files", total |-> Len(lines),
          echo |-> Capped(lines, GLOB_CAP)]
    ELSE [text |-> "Find failed", total |-> 0, echo |-> NoEcho]

\* The lines a command printed: m lines, told apart by what they hold.
OutputLines(m, order) ==
    [i \in 1..m |-> IF order = "up" THEN i ELSE m + 1 - i]

InitEcho ==
    /\ RunAtRest
    /\ redis = <<>>
    /\ callers = <<>>
    /\ inflight = {}
    /\ pc = "e_ready"
    /\ \E m \in 0..MaxOutputLines, order \in {"up", "down"} :
          args \in [type : {"Grep", "Glob"}, lines : {OutputLines(m, order)},
                    exit_code : 0..2]
    /\ ret = <<>>

EchoCall ==
    /\ pc = "e_ready"
    /\ ret' = IF args.type = "Grep"
              THEN HandleGrep(args.lines, args.exit_code)
              ELSE HandleGlob(args.lines, args.exit_code)
    /\ pc' = "e_done"
    /\ UNCHANGED <<runVars, redis, callers, inflight, args>>

NextEcho == EchoCall

SpecEcho == InitEcho /\ [][NextEcho]_vars

CapOf(type) == IF type = "Grep" THEN GREP_CAP ELSE GLOB_CAP

C26_WindowBounded == Len(messages) <= 2 * MAX_ACTIVE_TURNS + 5

\* --------------------------------- SpecDeep: a run past twenty turns
\* The run of SpecLong with a budget under which the summarized range stops
\* beginning at turn 1. Every completion call answers at once with one bash
\* block; the sandbox and the store do not fail, so no turn raises.
InitDeep == InitRun({DeepTurns})

NextDeep ==
    \/ RunStart
    \/ LoopTest
    \/ ManageMemoryWith(OkScripts, {"ok"})
    \/ CallLLM(OkScripts, LongReplies)
    \/ ParseTurn
    \/ Dispatch({"ok"})
    \/ FinishScan
    \/ SaveTurn({"ok"})
    \/ ReturnResult({"ok"})

SpecDeep == InitDeep /\ [][NextDeep]_vars

\* the turns whose reply or results message is in ConversationState
InWindow(t) ==
    \E i \in 1..Len(messages) :
        messages[i].kind \in {"reply", "results", "error"} /\ messages[i].turn = t

\* C27: once a compaction has been made, every earlier turn whose messages
\* are no longer in ConversationState lies in the turn range of the summary
\* message ConversationState holds.
C27_SummaryCoversEvicted ==
    (Len(messages) >= 3 /\ messages[3].kind = "summary") =>
        \A t \in 1..(current_turn - 1) :
            InWindow(t) \/ (messages[3].lo <= t /\ t <= messages[3].hi)

\* --------------------------- SpecPrompt: what the completion call is given
\* The run of SpecLong with two records kept: ret, the turn whose
\* _manage_memory has returned and ConversationState as it left it; args, the
\* turn and the messages argument of the last get_completion call.
NoPrompt == [turn |-> 0, messages |-> <<>>]

InitNoted(budgets) ==
    /\ pc = "idle"
    /\ max_turns \in budgets
    /\ current_turn = 0
    /\ messages = <<>>
    /\ done = FALSE
    /\ finish_message = NoMessage
    /\ llm_output = <<>>
    /\ actions = <<>>
    /\ parse_errors = <<>>
    /\ action_results = <<>>
    /\ calls = <<>>
    /\ exc = "none"
    /\ turns = <<>>
    /\ meta_max_turn = 0
    /\ summaries = <<>>
    /\ result = NoResult
    /\ hist = NoHist
    /\ redis = <<>>
    /\ callers = <<>>
    /\ inflight = {}
    /\ args = NoPrompt
    /\ ret = NoPrompt

InitPrompt == InitNoted({LongTurns})

\* await self._manage_memory()
ManageMemoryNoted(scripts, outs) ==
    /\ ManageMemoryCore(scripts, outs)
    /\ ret' = IF pc' = "llm"
              THEN [turn |-> current_turn, messages |-> messages']
              ELSE ret
    /\ UNCHANGED <<redis, callers, inflight, args>>

\* (mutant) the call is given the list that self.messages named when the
\* turn began; a compaction rebinds self.messages to a new list
CallLLMSentStale(scripts, replies) ==
    /\ CallLLMCore(scripts, replies)
    /\ args' = [turn |-> current_turn, messages |-> hist.pre]
    /\ UNCHANGED <<redis, callers, inflight, ret>>

\* await self.llm_client.get_completion(messages=self.messages, ...)
CallLLMSent(scripts, replies) ==
    /\ CallLLMCore(scripts, replies)
    /\ args' = [turn |-> current_turn, messages |-> messages]
    /\ UNCHANGED <<redis, callers, inflight, ret>>

NextPrompt ==
    \/ RunStart
    \/ LoopTest
    \/ ManageMemoryNoted(LongScripts, CompactionOutcomes)
    \/ CallLLMSent(LongScripts, LongReplies)
    \/ ParseTurn
    \/ Dispatch({"ok"})
    \/ FinishScan
    \/ SaveTurn({"ok"})
    \/ TurnExcept
    \/ ReturnResult({"ok"})

SpecPrompt == InitPrompt /\ [][NextPrompt]_vars

\* C28: a turn's completion call is made only after that turn's
\* _manage_memory has returned, and its messages argument is the whole of
\* ConversationState as _manage_memory left it: compacted when more than
\* 2 x MAX_ACTIVE_TURNS + 1 non-system messages were held.
C28_CompactedBeforeCall ==
    [][args' # args =>
          /\ pc = "llm"
          /\ args'.turn = current_turn
          /\ ret.turn = current_turn
          /\ args'.messages = ret.messages
          /\ args'.messages = messages
          /\ NonSystem(hist.pre) > MAX_ACTIVE_TURNS * 2 + 1 =>
                /\ Len(args'.messages) = 3 + MAX_ACTIVE_TURNS * 2
                /\ args'.messages[3].kind = "summary"]_vars

\* C28 witness: the call of a turn was given a ConversationState that the
\* turn's compaction had just rewritten.
C28_Witness ==
    /\ pc = "parse"
    /\ hist.compacted
    /\ args.turn = current_turn
    /\ args.messages # hist.pre
    /\ args.messages[3].kind = "summary"
    /\ Len(args.messages) = 3 + MAX_ACTIVE_TURNS * 2

\* ------------------------- SpecErrors: parse errors and the next prompt
\* Replies whose first blocks do not validate, each with a tag of its own so
\* that the errors can be told apart.
BadTags == <<"bash", "write", "edit", "grep", "glob", "read">>
BadBlocks(n) == [i \in 1..n |-> [tag |-> BadTags[i], valid |-> FALSE, arg |-> "a"]]
GoodBash == [tag |-> "bash", valid |-> TRUE, arg |-> "a"]
FinishBlock == [tag |-> "finish", valid |-> TRUE, arg |-> "done"]

\* A short run: zero to MaxErrors failing blocks, then nothing, a command or
\* a finish; save_turn may raise. A long run, for the compactions: a command
\* alone or after MaxErrors failing blocks; nothing raises.
ShortErrorReplies ==
    {BadBlocks(n) \o rest :
        n \in 0..MaxErrors, rest \in {<<>>, <<GoodBash>>, <<FinishBlock>>}}
LongErrorReplies == {<<GoodBash>>, BadBlocks(MaxErrors) \o <<GoodBash>>}

ErrorReplies == IF max_turns = LongTurns THEN LongErrorReplies ELSE ShortErrorReplies
ErrorSaves == IF max_turns = LongTurns THEN {"ok"} ELSE {"ok", "set"}

InitErrors == InitNoted({MaxTurns, LongTurns})

NextErrors ==
    \/ RunStart
    \/ LoopTest
    \/ ManageMemoryNoted(OkScripts, {"ok"})
    \/ CallLLMSent(OkScripts, ErrorReplies)
    \/ ParseTurn
    \/ Dispatch({"ok"})
    \/ FinishScan
    \/ SaveTurn(ErrorSaves)
    \/ TurnExcept
    \/ ReturnResult({"ok"})

SpecErrors == InitErrors /\ [][NextErrors]_vars

LastOf(msgs) == msgs[Len(msgs)]

\* C29: when the reply of a turn gave parse errors and the turn neither
\* finished the run nor raised, the user message the turn appends holds the
\* errors (all of them when there are at most three, else the first three
\* and the count of the rest), and that message is the last message of the
\* prompt of the next turn's completion call.
C29_ErrorsReachNextPrompt ==
    /\ [](  (pc = "loop" /\ current_turn >= 1 /\ exc = "none" /\ ~done
               /\ parse_errors # <<>>)
          => LET m == LastOf(messages)
                 n == Len(parse_errors)
             IN  /\ m.role = "user"
                 /\ m.kind = "results"
                 /\ m.turn = current_turn
                 /\ Len(m.text) >= Min(3, n)
                 /\ \A i \in 1..Min(3, n) : m.text[i] = parse_errors[i]
                 /\ n <= 3 => m.text = parse_errors
                 /\ n > 3 => (Len(m.text) = 4 /\ m.text[4] = MoreLine(n - 3)))
    /\ [][args' # args =>
            /\ args'.turn = current_turn
            /\ LastOf(args'.messages) = LastOf(hist.pre)
            /\ current_turn >= 2 => LastOf(hist.pre).turn = current_turn - 1]_vars

\* C29 witness: a turn whose window was compacted sent a prompt whose last
\* message holds the first three of the four parse errors of the turn
\* before, and the count of the rest.
C29_Witness ==
    /\ pc = "parse"
    /\ hist.compacted
    /\ args.turn = current_turn
    /\ LastOf(args.messages).kind = "results"
    /\ LastOf(args.messages).turn = current_turn - 1
    /\ LastOf(args.messages).text = <<"bash", "write", "edit", MoreLine(1)>>

\* ------------------------- SpecSummary: summarize_turns(start, end) alone
\* What the completion service does on the attempts of the summarizer's
\* call: from the third attempt on, what it did on the second.
SummaryScripts == {s \in LLMScripts : \A i \in 3..max_retries : s[i] = s[2]}

\* The store after save_turn for some of the turns 1..MaxSaved; a memory
\* manager constructed with an llm_client or with None.
InitSummary ==
    /\ max_turns = 0
    /\ current_turn = 0
    /\ messages = <<>>
    /\ done = FALSE
    /\ finish_message = NoMessage
    /\ llm_output = <<>>
    /\ parse_errors = <<>>
    /\ exc = "none"
    /\ summaries = <<>>
    /\ result = NoResult
    /\ actions = <<>>
    /\ action_results = <<>>
    /\ calls = <<>>
    /\ hist = NoHist
    /\ redis = <<>>
    /\ callers = <<>>
    /\ inflight = {}
    /\ pc = "z_ready"
    /\ \E D \in SUBSET (1..MaxSaved) :
          /\ \E f \in [D -> ActionNames] :
                turns = [n \in D |-> [turn_num |-> n, actions |-> f[n]]]
          /\ meta_max_turn = IF D = {} THEN 0 ELSE CHOOSE n \in D : \A m \in D : m <= n
    /\ \/ args \in [start : RangeArgs, end : RangeArgs, client : {TRUE},
                    script : SummaryScripts]
       \/ args \in [start : RangeArgs, end : RangeArgs, client : {FALSE},
                    script : {[i \in 1..max_retries |-> "ok"]}]
    /\ ret = <<>>

SummarizeCall ==
    /\ pc = "z_ready"
    /\ ret' = SummarizeTurnsOutcome(turns, args.start, args.end, args.client,
                                    args.script)
    /\ pc' = "z_done"
    /\ UNCHANGED <<runVars, redis, callers, inflight, args>>

NextSummary == SummarizeCall

SpecSummary == InitSummary /\ [][NextSummary]_vars

\* the summarizer has no completion to use
NoCompletion ==
    ~args.client \/ GetCompletion(max_retries, args.script).status = "raise"

\* C30: summarize_turns does not raise whatever the completion service
\* does; with no client, or when the completion call raises, its text is the
\* header and one line per stored turn of [start, end], in ascending order,
\* with the turn's number and actions, and no completion attempt is made
\* beyond those of the call that raised (none at all without a client).
C30_SummaryFallback ==
    pc = "z_done" =>
        LET stored == Dom(turns) \cap (args.start..args.end)
        IN  /\ ~ret.raised
            /\ (NoCompletion /\ stored # {}) =>
                  /\ Len(ret.text) = 1 + Cardinality(stored)
                  /\ ret.text[1] = SummaryLine("header", args.start, args.end, <<>>)
                  /\ \A i \in 2..Len(ret.text) :
                        /\ ret.text[i].line = "turn"
                        /\ ret.text[i].lo \in stored
                        /\ ret.text[i].actions =
                              (IF turns[ret.text[i].lo].actions = <<>>
                               THEN <<"thinking">>
                               ELSE turns[ret.text[i].lo].actions)
                        /\ i > 2 => ret.text[i - 1].lo < ret.text[i].lo
                  /\ ~args.client => ret.attempts = 0
                  /\ args.client =>
                        ret.attempts = GetCompletion(max_retries, args.script).attempts
            /\ ret.attempts <= max_retries

\* C30 witness: every attempt of the summarizer's call failed and the text
\* lists two stored turns, one of them without actions.
C30_Witness ==
    /\ pc = "z_done"
    /\ args.client
    /\ args.script = [i \in 1..max_retries |-> "transient"]
    /\ ret.attempts = max_retries
    /\ Len(ret.text) = 3
    /\ ret.text[2].actions = <<"thinking">>
    /\ ret.text[3].actions = <<"Bash">>

\* ============================ _parse_single_action and _parse_params in full
\* content.strip(), on a text: leading and trailing blank lines go, the
\* first line left is lstrip()ped and the last rstrip()ped
Strip(line) == RStrip(LStrip(line))

RECURSIVE StripText(_)
StripText(text) ==
    IF text = <<>>
    THEN << <<>> >>
    ELSE IF IsBlank(text[1])
    THEN StripText(Tail(text))
    ELSE IF IsBlank(text[Len(text)])
    THEN StripText(SubSeq(text, 1, Len(text) - 1))
    ELSE IF Len(text) = 1
    THEN <<Strip(text[1])>>
    ELSE <<LStrip(text[1])>> \o SubSeq(text, 2, Len(text) - 1)
            \o <<RStrip(text[Len(text)])>>

\* ':' in line, and line.index(':')
HasColon(line) == \E i \in 1..Len(line) : line[i] = ":"
ColonIdx(line) ==
    CHOOSE i \in 1..Len(line) :
        line[i] = ":" /\ \A j \in 1..(i - 1) : line[j] # ":"

\* the stop test of the empty-value and same-line loops: a line that is not
\* blank, holds a colon and does not begin with white space
IsNextKey(line) == ~IsBlank(line) /\ HasColon(line) /\ line[1] # " "

\* The first index from i on whose line satisfies the stop test of the
\* inner loop (Len + 1: the loop ran to the end).
RECURSIVE StopIdx(_, _, _)
StopIdx(lines, i, pipe) ==
    IF i > Len(lines)
    THEN i
    ELSE IF (IF pipe THEN StartsKey(lines[i]) ELSE IsNextKey(lines[i]))
    THEN i
    ELSE StopIdx(lines, i + 1, pipe)

\* the stripped lines that are not blank, in order
RECURSIVE StrippedLines(_)
StrippedLines(lines) ==
    IF lines = <<>>
    THEN <<>>
    ELSE IF IsBlank(lines[1])
    THEN StrippedLines(Tail(lines))
    ELSE <<Strip(lines[1])>> \o StrippedLines(Tail(lines))

\* params[key] = value
SetParam(params, key, value) ==
    [k \in (DOMAIN params) \cup {key} |-> IF k = key THEN value ELSE params[k]]

\* _parse_params from line i on. The model's texts hold no quote and no '#',
\* so the quote removal and the comment test change nothing here.
RECURSIVE ParseParamsFrom(_, _, _)
ParseParamsFrom(lines, i, params) ==
    IF i > Len(lines)
    THEN params
    ELSE IF IsBlank(lines[i]) \/ ~HasColon(lines[i])
    THEN ParseParamsFrom(lines, i + 1, params)
    ELSE LET line == lines[i]
             colon_idx == ColonIdx(line)
             key == Strip(SubSeq(line, 1, colon_idx - 1))
             rest == Strip(Drop(line, colon_idx))
             stop == StopIdx(lines, i + 1, rest = <<"|">>)
             body == SubSeq(lines, i + 1, stop - 1)
             value ==
                CASE rest = <<"|">> -> JoinRStrip(PipeFrom(body, 1, 0 - 1, <<>>))
                  [] rest = <<>> ->
                        IF StrippedLines(body) = <<>>
                        THEN << <<>> >>
                        ELSE StrippedLines(body)
                  [] OTHER -> <<rest>> \o StrippedLines(body)
         IN  ParseParamsFrom(lines, stop, SetParam(params, key, value))

ParseParams(content) == ParseParamsFrom(content, 1, <<>>)

\* BashAction's fields: cmd is required, timeout_secs has a default; a key
\* that is no field of the class is ignored by the constructor.
cmd == <<"c", "m", "d">>
timeout_secs == <<"t", "i", "m", "e", "o", "u", "t", "_", "s", "e", "c", "s">>
message == <<"m", "e", "s", "s", "a", "g", "e">>

\* _parse_single_action(tag_name, content): None for a tag without a class,
\* FinishAction(message = content.strip()), else action_class(**params),
\* which raises when a required field is missing.
ParseSingleAction(tag_name, content) ==
    LET cls == TagClass(tag_name)
        params == ParseParams(StripText(content))
    IN  CASE cls = "none" -> [kind |-> "none"]
          [] cls = "Finish" ->
                [kind |-> "action", type |-> cls,
                 fields |-> SetParam(<<>>, message, StripText(content))]
          [] cmd \in DOMAIN params ->
                [kind |-> "action", type |-> cls,
                 fields |-> [k \in (DOMAIN params) \cap {cmd, timeout_secs}
                                |-> params[k]]]
          [] OTHER -> [kind |-> "error"]

\* ------------------------------ SpecFence: one block body, bare and fenced
\* The lines a body is made of: a same-line value, an empty value, a literal
\* block opener, an indented and an unindented continuation line, a blank
\* line, and a key that is no field of the class.
BodyLines ==
    { <<"c", "m", "d", ":", " ", "l", "s">>,
      <<"c", "m", "d", ":">>,
      <<"c", "m", "d", ":", " ", "|">>,
      <<" ", " ", "l", "s">>,
      <<"l", "s">>,
      <<>>,
      <<"n", ":", " ", "x">> }
Bodies == UNION {[1..n -> BodyLines] : n \in 1..MaxLines}

\* the opening fence, with or without a language, and the closing fence;
\* Backtick stands for the one character U+0060
Backtick == "BT"
FenceClose == <<Backtick, Backtick, Backtick>>
FenceOpeners == { FenceClose, FenceClose \o <<"y", "a", "m", "l">> }
Fenced(body, opener) == <<opener>> \o body \o <<FenceClose>>

InitFence ==
    /\ RunAtRest
    /\ redis = <<>>
    /\ callers = <<>>
    /\ inflight = {}
    /\ pc = "f_ready"
    /\ \E tag \in {"bash", "finish"}, body \in Bodies, opener \in FenceOpeners :
          args = [tag |-> tag, body |-> body, opener |-> opener]
    /\ ret = <<>>

\* _parse_single_action on the body as it is and on the same body inside a
\* fence
ParseSingleActionCall ==
    /\ pc = "f_ready"
    /\ ret' = [plain |-> ParseSingleAction(args.tag, args.body),
               fenced |-> ParseSingleAction(args.tag,
                                            Fenced(args.body, args.opener))]
    /\ pc' = "f_done"
    /\ UNCHANGED <<runVars, redis, callers, inflight, args>>

NextFence == ParseSingleActionCall

SpecFence == InitFence /\ [][NextFence]_vars

\* C31: a body inside one leading and one trailing Markdown fence parses to
\* the same action, with the same field values, as the body without the
\* fence.
C31_FenceStripped == pc = "f_done" => ret.fenced = ret.plain

\* =============================== action_pattern: <(\w+)>\s*(.*?)\s*</\1>
\* A reply is a sequence of tokens: an opening tag <name>, a closing tag
\* </name>, or text that holds no tag (valid: the text is the fields of a
\* Bash action). The back-reference \1 is the text of group 1 as it was
\* matched, so the closing tag has to repeat the opening name letter for
\* letter.
Open(name) == [kind |-> "open", name |-> name, valid |-> FALSE]
Close(name) == [kind |-> "close", name |-> name, valid |-> FALSE]
Text(valid) == [kind |-> "text", name |-> "", valid |-> valid]

Closes(tok, name) == tok.kind = "close" /\ tok.name = name

\* findall: at an opening tag with a closing tag of its name behind it the
\* match runs to the first such closing tag (.*? is lazy and DOTALL, the
\* content may hold other tags) and the scan goes on after it; anywhere
\* else the scan moves on by one token. The content validates when it
\* begins with the fields.
RECURSIVE FindAll(_, _)
FindAll(toks, i) ==
    IF i > Len(toks)
    THEN <<>>
    ELSE IF /\ toks[i].kind = "open"
            /\ \E j \in (i + 1)..Len(toks) : Closes(toks[j], toks[i].name)
    THEN LET j == CHOOSE j \in (i + 1)..Len(toks) :
                    /\ Closes(toks[j], toks[i].name)
                    /\ \A k \in (i + 1)..(j - 1) : ~Closes(toks[k], toks[i].name)
             content == SubSeq(toks, i + 1, j - 1)
         IN  <<[tag |-> toks[i].name,
                valid |-> content # <<>> /\ content[1].valid,
                arg |-> content]>> \o FindAll(toks, j + 1)
    ELSE FindAll(toks, i + 1)

\* parse(llm_output) on the text itself
ParseText(toks) == Parse(FindAll(toks, 1))

\* ------------------------------------- SpecTags: parse on a reply's text
TagNames == {"bash", "BASH", "finish", "Finish"}
Tokens == {Open(n) : n \in TagNames} \cup {Close(n) : n \in TagNames}
             \cup {Text(v) : v \in BOOLEAN}

InitTags ==
    /\ RunAtRest
    /\ redis = <<>>
    /\ callers = <<>>
    /\ inflight = {}
    /\ pc = "t_ready"
    /\ args \in SeqsUpTo(Tokens, MaxTokens)
    /\ ret = <<>>

\* actions, errors = parse(llm_output)
ParseTextCall ==
    /\ pc = "t_ready"
    /\ ret' = ParseText(args)
    /\ pc' = "t_done"
    /\ UNCHANGED <<runVars, redis, callers, inflight, args>>

NextTags == ParseTextCall

SpecTags == InitTags /\ [][NextTags]_vars

\* a reply that is one block: an opening tag, a body, a closing tag whose
\* name is the opening one up to letter case, the name being a known tag
OneBlock(toks) ==
    /\ Len(toks) = 3
    /\ toks[1].kind = "open"
    /\ toks[2].kind = "text"
    /\ toks[3].kind = "close"
    /\ Lower(toks[1].name) = Lower(toks[3].name)
    /\ TagClass(Lower(toks[1].name)) # "none"

\* C32: a block whose opening and closing tag names are a known tag name up
\* to letter case, also when the two differ from each other in case, is
\* parsed as that action (given that its body is one of that action).
C32_TagsAnyCase ==
    (pc = "t_done" /\ OneBlock(args)
        /\ (args[2].valid \/ TagClass(Lower(args[1].name)) = "Finish")) =>
        /\ ret.errors = <<>>
        /\ Len(ret.actions) = 1
        /\ ret.actions[1].type = TagClass(Lower(args[1].name))
        /\ ret.actions[1].arg = <<args[2]>>

\* ===================================== TaskStore: the status indexes in use
\* The store: the task records by task_id (of a record, its status) and the
\* four sets tasks:<status>. Calls are made one after the other here; no
\* store call raises and no key reaches its expiry.
TaskStatus == {"pending", "running", "completed", "failed"}
TaskIds == {"t1", "t2"}

\* get_task(task_id): the record, or None
GetTask(store, task_id) ==
    IF task_id \in DOMAIN store.tasks THEN store.tasks[task_id] ELSE "None"

\* get_tasks_by_status(status): the tasks of the ids in the index that
\* get_task finds (fewer than the limit of 100 here), each with the status
\* its record holds
GetTasksByStatus(store, status) ==
    {[task_id |-> tid, status |-> store.tasks[tid]] :
        tid \in {t \in store.index[status] : GetTask(store, t) # "None"}}

InitTaskOps ==
    /\ RunAtRest
    /\ callers = <<>>
    /\ inflight = {}
    /\ pc = "k_ready"
    /\ redis = [tasks |-> <<>>, index |-> [s \in TaskStatus |-> {}]]
    /\ args = <<>>
    /\ ret = <<>>

\* create_task(task_id, ...): set the record with status pending, sadd the
\* id to tasks:pending, expire; returns the task
CreateTask(task_id) ==
    /\ pc = "k_ready"
    /\ redis' = [tasks |-> SetParam(redis.tasks, task_id, "pending"),
                 index |-> [redis.index EXCEPT !["pending"] = @ \cup {task_id}]]
    /\ args' = [op |-> "create_task", task_id |-> task_id]
    /\ ret' = "task"
    /\ UNCHANGED <<pc, runVars, callers, inflight>>

\* update_task_status(task_id, status): False when get_task finds nothing;
\* else srem from the index of the record's status, set the record, sadd to
\* the index of the new status, True
UpdateTaskStatus(task_id, status) ==
    /\ pc = "k_ready"
    /\ args' = [op |-> "update_task_status", task_id |-> task_id]
    /\ LET task == GetTask(redis, task_id)
       IN  IF task = "None"
           THEN /\ ret' = FALSE
                /\ UNCHANGED redis
           ELSE /\ redis' =
                     [tasks |-> SetParam(redis.tasks, task_id, status),
                      index |-> [s \in TaskStatus |->
                                    IF s = status
                                    THEN redis.index[s] \cup {task_id}
                                    ELSE IF s = task
                                    THEN redis.index[s] \ {task_id}
                                    ELSE redis.index[s]]]
                /\ ret' = TRUE
    /\ UNCHANGED <<pc, runVars, callers, inflight>>

\* delete_task(task_id): False when get_task finds nothing; else srem from
\* the index of the record's status, delete the record, True
DeleteTask(task_id) ==
    /\ pc = "k_ready"
    /\ args' = [op |-> "delete_task", task_id |-> task_id]
    /\ LET task == GetTask(redis, task_id)
       IN  IF task = "None"
           THEN /\ ret' = FALSE
                /\ UNCHANGED redis
           ELSE /\ redis' =
                     [tasks |-> [t \in (DOMAIN redis.tasks) \ {task_id}
                                    |-> redis.tasks[t]],
                      index |-> [redis.index EXCEPT ![task] = @ \ {task_id}]]
                /\ ret' = TRUE
    /\ UNCHANGED <<pc, runVars, callers, inflight>>

\* get_tasks_by_status(status)
GetTasksByStatusCall(status) ==
    /\ pc = "k_ready"
    /\ args' = [op |-> "get_tasks_by_status", task_id |-> status]
    /\ ret' = GetTasksByStatus(redis, status)
    /\ UNCHANGED <<pc, runVars, redis, callers, inflight>>

NextTaskOps ==
    \/ \E task_id \in TaskIds : CreateTask(task_id)
    \/ \E task_id \in TaskIds, status \in TaskStatus :
          UpdateTaskStatus(task_id, status)
    \/ \E task_id \in TaskIds : DeleteTask(task_id)
    \/ \E status \in TaskStatus : GetTasksByStatusCall(status)

SpecTaskOps == InitTaskOps /\ [][NextTaskOps]_vars

\* C33: after any sequence of create_task, update_task_status and
\* delete_task calls, get_tasks_by_status(s) returns exactly the stored
\* tasks whose status is s, and every stored task id is in exactly one
\* status index, the one of its stored status.
C33_IndexMatchesStatus ==
    /\ \A s \in TaskStatus :
          GetTasksByStatus(redis, s) =
              {[task_id |-> t, status |-> s] :
                  t \in {u \in DOMAIN redis.tasks : redis.tasks[u] = s}}
    /\ \A t \in DOMAIN redis.tasks :
          \A s \in TaskStatus : t \in redis.index[s] <=> s = redis.tasks[t]

\* ================================ RedisContextStore: add and delete in use
\* One context id; the record under "context:<id>" is not stored, or stored
\* with its task_id ("": none), and task_contexts:<t> is a set of context ids. A call in
\* progress: its operation and the task_id of the context it adds, where it
\* is, its pipeline's watch state, the context delete_context fetched, what
\* redis.delete returned, and what the call returned.
context_id == "ctx1"
NoContext == [stored |-> FALSE, task_id |-> ""]
Stored(task_id) == [stored |-> TRUE, task_id |-> task_id]
CtxTasks == {"taskA", "taskB"}

NewCall(op, task_id) ==
    [op |-> op, task_id |-> task_id,
     pc |-> IF op = "add_context" THEN "watch" ELSE "get",
     watching |-> FALSE, dirty |-> FALSE, ctx |-> NoContext, deleted |-> FALSE,
     ret |-> "pending"]
CtxCalls ==
    {NewCall("add_context", t) : t \in CtxTasks \cup {""}}
        \cup {NewCall("delete_context", "")}

\* get_contexts_for_task(task_id): the contexts of the ids in the task's
\* index that get_context finds (a key that is not stored gives None)
GetContextsForTask(store, task_id) ==
    {[id |-> cid, task_id |-> store.context.task_id] :
        cid \in {i \in store.task_contexts[task_id] : store.context.stored}}

InitCtxOps ==
    /\ RunAtRest
    /\ pc = "x_calls"
    /\ inflight = {}
    /\ args = <<>>
    /\ ret = <<>>
    /\ \E n \in 1..MaxCallers : callers \in [1..n -> CtxCalls]
    /\ \E t \in CtxTasks \cup {"none"} :
          redis = [context |-> IF t = "none" THEN NoContext ELSE Stored(t),
                   task_contexts |-> [u \in CtxTasks |->
                                         IF u = t THEN {context_id} ELSE {}]]

\* add_context: exists (not used), then await pipe.watch(key)
AddWatch(c) ==
    /\ callers[c].pc = "watch"
    /\ callers' = [callers EXCEPT ![c].pc = "check",
                                  ![c].watching = TRUE,
                                  ![c].dirty = FALSE]
    /\ UNCHANGED <<redis, ctxFrame>>

\* exists = await pipe.exists(key); if exists: return False; else multi()
\* and the queued hset
AddCheck(c) ==
    /\ callers[c].pc = "check"
    /\ callers' = IF redis.context.stored
                  THEN [callers EXCEPT ![c].pc = "done",
                                       ![c].ret = "false",
                                       ![c].watching = FALSE,
                                       ![c].dirty = FALSE]
                  ELSE [callers EXCEPT ![c].pc = "execute"]
    /\ UNCHANGED <<redis, ctxFrame>>

\* await pipe.execute(): WatchError (back to the watch) or the hset
AddExecute(c) ==
    /\ callers[c].pc = "execute"
    /\ IF callers[c].dirty
       THEN /\ callers' = [callers EXCEPT ![c].pc = "watch",
                                          ![c].watching = FALSE,
                                          ![c].dirty = FALSE]
            /\ UNCHANGED redis
       ELSE /\ redis' = [redis EXCEPT
                            !.context = Stored(callers[c].task_id)]
            /\ callers' = [Touch(callers, c) EXCEPT
                                ![c].pc = IF callers[c].task_id # ""
                                          THEN "sadd" ELSE "expire",
                                ![c].watching = FALSE,
                                ![c].dirty = FALSE]
    /\ UNCHANGED ctxFrame

\* if context.task_id: await self.redis.sadd(task_key, context.id)
AddSadd(c) ==
    /\ callers[c].pc = "sadd"
    /\ redis' = [redis EXCEPT
                    !.task_contexts[callers[c].task_id] = @ \cup {context_id}]
    /\ callers' = [callers EXCEPT ![c].pc = "expire"]
    /\ UNCHANGED ctxFrame

\* await self.redis.expire(key, 604800); return True
AddExpire(c) ==
    /\ callers[c].pc = "expire"
    /\ callers' = [(IF redis.context.stored
                    THEN Touch(callers, c) ELSE callers)
                        EXCEPT ![c].pc = "done", ![c].ret = "true"]
    /\ UNCHANGED <<redis, ctxFrame>>

\* delete_context: ctx = await self.get_context(context_id)
DelGet(c) ==
    /\ callers[c].pc = "get"
    /\ callers' = [callers EXCEPT ![c].pc = "delete", ![c].ctx = redis.context]
    /\ UNCHANGED <<redis, ctxFrame>>

\* deleted = await self.redis.delete(key); without a task_id to remove from
\* an index the call returns here
DelDelete(c) ==
    /\ callers[c].pc = "delete"
    /\ redis' = [redis EXCEPT !.context = NoContext]
    /\ LET deleted == redis.context.stored
           indexed == callers[c].ctx.stored /\ callers[c].ctx.task_id # ""
       IN  callers' = [(IF deleted THEN Touch(callers, c) ELSE callers)
                        EXCEPT ![c].deleted = deleted,
                               ![c].pc = IF indexed THEN "srem" ELSE "done",
                               ![c].ret = IF indexed THEN "pending"
                                          ELSE IF deleted THEN "true"
                                          ELSE "false"]
    /\ UNCHANGED ctxFrame

\* await self.redis.srem(task_key, context_id); return deleted != 0
DelSrem(c) ==
    /\ callers[c].pc = "srem"
    /\ redis' = [redis EXCEPT
                    !.task_contexts[callers[c].ctx.task_id] = @ \ {context_id}]
    /\ callers' = [callers EXCEPT
                        ![c].pc = "done",
                        ![c].ret = IF callers[c].deleted THEN "true" ELSE "false"]
    /\ UNCHANGED ctxFrame

NextCtxOps ==
    \/ \E c \in DOMAIN callers : AddWatch(c)
    \/ \E c \in DOMAIN callers : AddCheck(c)
    \/ \E c \in DOMAIN callers : AddExecute(c)
    \/ \E c \in DOMAIN callers : AddSadd(c)
    \/ \E c \in DOMAIN callers : AddExpire(c)
    \/ \E c \in DOMAIN callers : DelGet(c)
    \/ \E c \in DOMAIN callers : DelDelete(c)
    \/ \E c \in DOMAIN callers : DelSrem(c)

SpecCtxOps == InitCtxOps /\ [][NextCtxOps]_vars

\* C34: once the add_context and delete_context calls, interleaved in any
\* way, have returned, get_contexts_for_task(t) returns exactly the stored
\* contexts whose task_id is t.
C34_IndexMatchesStore ==
    AllReturned =>
        \A t \in CtxTasks :
            GetContextsForTask(redis, t) =
                {[id |-> context_id, task_id |-> t] :
                    i \in {j \in {context_id} :
                            /\ redis.context.stored
                            /\ redis.context.task_id = t}}

\* C35: the returned record never has completed and max_turns_reached both
\* true; max_turns_reached is true only of a run that used up its turns
\* without a Finish, also when the Finish came on turn number max_turns.
C35_ReachedOnlyIfIncomplete ==
    pc = "returned" =>
        /\ ~(result.completed /\ result.max_turns_reached)
        /\ result.max_turns_reached => hist.finishTurn = 0

\* C36: get_completion returns the text of a successful attempt or raises,
\* for every max_retries >= 0 and every pattern of failing attempts.
C36_TextOrRaise ==
    pc = "g_done" =>
        \/ ret.status = "ok" /\ args.script[ret.attempts] = "ok"
        \/ ret.status = "raise"

\* ===================================== MemoryManager: the keys of two runs
\* A key is the sequence of its characters, and so is a task_id; the store
\* is the values by key. A turn number is written in decimal (one digit
\* here).
KeyHead == <<"m", "e", "m", "o", "r", "y", ":">>

\* (mutant) the turn key leaves the task_id out
TurnKeyShared(task_id, turn_num) ==
    KeyHead \o <<"t", "u", "r", "n", ":">> \o <<ToString(turn_num)>>

\* f"memory:{task_id}:turn:" + str(turn_num)
TurnKey(task_id, turn_num) ==
    KeyHead \o task_id \o <<":", "t", "u", "r", "n", ":">>
        \o <<ToString(turn_num)>>

\* f"memory:{task_id}:summary" and f"memory:{task_id}:metadata"
SummaryKey(task_id) ==
    KeyHead \o task_id \o <<":", "s", "u", "m", "m", "a", "r", "y">>
MetadataKey(task_id) ==
    KeyHead \o task_id \o <<":", "m", "e", "t", "a", "d", "a", "t", "a">>

\* redis.get(key) as its callers use it: the value, or what the caller makes
\* of None (no turn; _get_metadata and _get_summaries give {}, of which
\* max_turn reads as 0)
NoTurn == [turn_num |-> 0, user |-> "None"]
NoMetadata == [max_turn |-> 0]
NoSummaries == [ranges |-> {}]
RedisGet(store, key, none) == IF key \in DOMAIN store THEN store[key] ELSE none

\* --------------------------------- SpecRuns: two runs on one Redis server
\* The task ids the two managers are constructed with: plain ones, and ones
\* that hold the separators of the key scheme.
RunIds ==
    { <<"a">>, <<"b">>,
      <<"a", ":", "t", "u", "r", "n", ":", "1">>,
      <<"a", ":", "s", "u", "m", "m", "a", "r", "y">> }
RunTurns == {1, 2}
RunNames == {"A", "B"}
OtherRun(r) == IF r = "A" THEN "B" ELSE "A"

\* A manager at rest, and what it holds in the middle of a call: the turn
\* number it saves and what its last reads returned.
IdleRun(task_id) ==
    [task_id |-> task_id, pc |-> "idle", turn_num |-> 0,
     metadata |-> NoMetadata, summaries |-> NoSummaries]

InitRuns ==
    /\ RunAtRest
    /\ pc = "r_runs"
    /\ inflight = {}
    /\ args = <<>>
    /\ ret = <<>>
    /\ redis = <<>>
    /\ \E a \in RunIds : \E b \in RunIds \ {a} :
          callers = [r \in RunNames |-> IdleRun(IF r = "A" THEN a ELSE b)]

runsFrame == <<pc, runVars, inflight, args, ret>>

\* save_turn(turn_num, ...): redis.set(key, json.dumps(turn_data)), expire
RunSetTurn(r, turn_num) ==
    /\ callers[r].pc = "idle"
    /\ redis' = SetParam(redis, TurnKey(callers[r].task_id, turn_num),
                         [turn_num |-> turn_num, user |-> r])
    /\ callers' = [callers EXCEPT ![r].pc = "get_metadata",
                                  ![r].turn_num = turn_num]
    /\ UNCHANGED runsFrame

\* _update_metadata: metadata = await self._get_metadata()
RunGetMetadata(r) ==
    /\ callers[r].pc = "get_metadata"
    /\ callers' = [callers EXCEPT
                        ![r].pc = "set_metadata",
                        ![r].metadata =
                            RedisGet(redis, MetadataKey(callers[r].task_id),
                                     NoMetadata)]
    /\ UNCHANGED <<redis, runsFrame>>

\* metadata["max_turn"] = max(metadata.get("max_turn", 0), turn_num);
\* redis.set(self.metadata_key, ...), expire
RunSetMetadata(r) ==
    /\ callers[r].pc = "set_metadata"
    /\ redis' = SetParam(redis, MetadataKey(callers[r].task_id),
                         [max_turn |-> Max(callers[r].metadata.max_turn,
                                           callers[r].turn_num)])
    /\ callers' = [callers EXCEPT ![r] = IdleRun(callers[r].task_id)]
    /\ UNCHANGED runsFrame

\* save_summary(turn_range, summary): summaries = await self._get_summaries()
RunGetSummaries(r) ==
    /\ callers[r].pc = "idle"
    /\ callers' = [callers EXCEPT
                        ![r].pc = "set_summary",
                        ![r].summaries =
                            RedisGet(redis, SummaryKey(callers[r].task_id),
                                     NoSummaries)]
    /\ UNCHANGED <<redis, runsFrame>>

\* summaries[turn_range] = {...}; redis.set(self.summary_key, ...), expire
RunSetSummary(r, turn_range) ==
    /\ callers[r].pc = "set_summary"
    /\ LET old == callers[r].summaries.ranges
       IN  redis' = SetParam(redis, SummaryKey(callers[r].task_id),
                             [ranges |-> {x \in old : x.range # turn_range}
                                 \cup {[range |-> turn_range, summary |-> r]}])
    /\ callers' = [callers EXCEPT ![r] = IdleRun(callers[r].task_id)]
    /\ UNCHANGED runsFrame

NextRuns ==
    \/ \E r \in RunNames, turn_num \in RunTurns : RunSetTurn(r, turn_num)
    \/ \E r \in RunNames : RunGetMetadata(r)
    \/ \E r \in RunNames : RunSetMetadata(r)
    \/ \E r \in RunNames : RunGetSummaries(r)
    \/ \E r \in RunNames, turn_range \in {"1-2"} : RunSetSummary(r, turn_range)

SpecRuns == InitRuns /\ [][NextRuns]_vars

\* what a manager can read back of its own run: its turn records, its
\* summaries and its metadata
RunView(store, task_id) ==
    [turns |-> [n \in RunTurns |-> RedisGet(store, TurnKey(task_id, n), NoTurn)],
     summaries |-> RedisGet(store, SummaryKey(task_id), NoSummaries),
     metadata |-> RedisGet(store, MetadataKey(task_id), NoMetadata)]

\* C37: two runs with different run identifiers do not interfere in the
\* store: under any interleaving, a step of save_turn (its metadata update
\* included) or of save_summary of one run leaves every turn record, the
\* summaries and the metadata of the other run as they were.
C37_RunsIndependent ==
    [][\A r \in RunNames :
          callers'[r] # callers[r] =>
              RunView(redis', callers[OtherRun(r)].task_id)
                  = RunView(redis, callers[OtherRun(r)].task_id)]_vars

\* C37 witness: both runs have saved the same turn number and a summary of
\* the same range, one run being named by a turn key of the other, and each
\* reads back its own.
C37_Witness ==
    /\ callers["A"].task_id = <<"a">>
    /\ callers["B"].task_id = <<"a", ":", "t", "u", "r", "n", ":", "1">>
    /\ \A r \in RunNames :
          LET v == RunView(redis, callers[r].task_id)
          IN  /\ v.turns[1] = [turn_num |-> 1, user |-> r]
              /\ v.metadata.max_turn >= 1
              /\ v.summaries.ranges = {[range |-> "1-2", summary |-> r]}

\* ------------------------------ SpecAgain: a short run() made twice on one agent
\* The agent's run() is called a second time after the first call returned,
\* with the same max_turns; a reply is a bash block, a finish block or both,
\* and nothing fails.
AgainReplies == {<<GoodBash>>, <<FinishBlock>>, <<GoodBash, FinishBlock>>}

InitAgain == InitRun(1..MaxTurns)

NextAgain ==
    \/ RunStart
    \/ LoopTest
    \/ ManageMemory(OkScripts)
    \/ CallLLM(OkScripts, AgainReplies)
    \/ ParseTurn
    \/ Dispatch({"ok"})
    \/ FinishScan
    \/ SaveTurn({"ok"})
    \/ ReturnResult({"ok"})
    \/ RunAgain

SpecAgain == InitAgain /\ [][NextAgain]_vars

\* C38: every call of run() starts from the fresh Idle state: at the loop's
\* first test the turn counter is 0, the run is not completed and no finish
\* message is carried over; so a second run on an agent whose first run
\* completed executes turns again.
C38_RunStartsFresh ==
    /\ (pc = "loop" /\ current_turn = 0) =>
          ~done /\ finish_message = NoMessage
    /\ (pc = "returned" /\ hist.runs = 2 /\ max_turns >= 1) =>
          result.turns_executed >= 1

====
